---- MODULE Spec2Model ----
(***************************************************************************)
(* Model of the retrieval core of WAC-Search: module initialisation        *)
(* (initQASearch / doInitQASearch) and the hybrid Q&A + content search     *)
(* (hybridSearch) with weighted reciprocal-rank fusion, de-duplication by  *)
(* section and the confidence / topic-coverage classifier.                 *)
(*                                                                         *)
(* Similarity scores are written in hundredths: the integer n stands for   *)
(* the IEEE-754 double nearest to n/100.  Fused RRF scores are the exact   *)
(* rationals (num/10)/den; the doubles the program computes differ from   *)
(* them by less than 1e-17, far below every gap the sort looks at.         *)
(***************************************************************************)
EXTENDS Integers, Sequences, FiniteSets

(***************************************************************************)
(* Bounds of the model.                                                    *)
(***************************************************************************)
\* largest number of Q&A pairs in a data set (one more than the Q&A window)
MaxQA == 11
\* largest number of content chunks in a data set (one more than the window)
MaxChunks == 21
\* number of distinct section identifiers a data set can use
MaxSections == 24
\* largest top-K a caller asks for
MaxTopK == 32
\* number of calls of initSearch
MaxInitRuns == 2
\* number of chunks in the data sets of the dense + BM25 search
MaxSearchChunks == 4
\* number of calls of initQASearch
MaxInitCalls == 3
\* number of doSearch calls of the useSearch hook
MaxCalls == 3

(***************************************************************************)
(* Program constants.                                                      *)
(***************************************************************************)
CONFIDENCE_HIGH_THRESHOLD == 75
CONFIDENCE_MEDIUM_THRESHOLD == 65
CONFIDENCE_LOW_THRESHOLD == 55
\* `(topScore - thirdScore) < 0.03`
SCATTER_GAP == 3
\* `const k = 60 // RRF constant`
k == 60
\* `qaResults.slice(0, 10)`
QA_WINDOW == 10
\* `contentResults.slice(0, 20)`
CONTENT_WINDOW == 20
\* `topK = 5`
DEFAULT_TOPK == 5
\* weights 1.0 and 1.2, in tenths
WEIGHT_PLAIN == 10
WEIGHT_QA_BOOST == 12
\* `Math.abs(rrfDiff) > 0.0001`: the tie width is 1 / RRF_TIE_INV; fused
\* scores are kept in tenths / den, so the test is |num| * 1000 > den
RRF_TIE_INV == 1000

(***************************************************************************)
(* IEEE-754 doubles of the two-decimal scores.                             *)
(* DoubleErr[n+1] = (double(n/100) - n/100) * 100 * 2^58, an integer: the  *)
(* rounding error of the double nearest to n/100.  Two scores in the same  *)
(* or adjacent binades subtract exactly, so the sign of                    *)
(* (a - b) - 0.03 in double arithmetic is decided by a - b - 3 and, when   *)
(* that is 0, by the rounding errors of the three doubles.                 *)
(***************************************************************************)
DoubleErr ==
  << 0, 6, 12, -32, 24, 80, -64, 192, 48, -96,
     160, 16, -128, 128, 384, -160, 96, 352, -192, 64,
     320, -224, 32, 288, -256, 0, 256, 512, 768, -576,
     -320, -64, 192, 448, 704, -640, -384, -128, 128, 384,
     640, -704, -448, -192, 64, 320, 576, -768, -512, -256,
     0, 256, 512, 768, 1024, 1280, 1536, -1408, -1152, -896,
     -640, -384, -128, 128, 384, 640, 896, 1152, 1408, -1536,
     -1280, -1024, -768, -512, -256, 0, 256, 512, 768, 1024,
     1280, 1536, -1408, -1152, -896, -640, -384, -128, 128, 384,
     640, 896, 1152, 1408, -1536, -1280, -1024, -768, -512, -256,
     0 >>

\* the double of a score outside 0.00 .. 1.00 is never compared at the
\* boundary in this model; its error is taken as 0
ErrOf(n) == IF n >= 0 /\ n <= 100 THEN DoubleErr[n + 1] ELSE 0

\* the gap test in decimal arithmetic instead of on doubles
DoubleGapBelowDecimal(a, b) == a - b < SCATTER_GAP

\* (a - b) < 0.03 evaluated on doubles
DoubleGapBelow(a, b) ==
  \/ a - b < SCATTER_GAP
  \/ a - b = SCATTER_GAP /\ ErrOf(a) - ErrOf(b) < ErrOf(SCATTER_GAP)

(***************************************************************************)
(* Data sets served under /data: the inputs of initialisation.             *)
(***************************************************************************)
QASizes == {0, 1, 3, MaxQA}
ChunkSizes == {0, 2, MaxChunks}
\* how sections, titles and embeddings are laid out over the entries
Layouts == {"same", "cyclic", "distinct", "sharedTitle", "orphans"}
TopKs == {0, 1, DEFAULT_TOPK, MaxTopK}

SectionOf(layout, i) ==
  CASE layout = "same" -> 1
    [] layout = "cyclic" -> ((i - 1) % 3) + 1
    [] OTHER -> ((i - 1) % MaxSections) + 1

\* section titles: one per section, except that under "sharedTitle" the
\* sections 2j-1 and 2j carry the same title
TitleOf(layout, sec) ==
  IF layout = "sharedTitle" THEN (sec + 1) \div 2 ELSE sec

MakeQAPairs(layout, n) ==
  [i \in 1..n |-> [question |-> i,
                   sectionId |-> SectionOf(layout, i),
                   sectionTitle |-> TitleOf(layout, SectionOf(layout, i))]]

MakeChunks(layout, n) ==
  [i \in 1..n |-> [id |-> SectionOf(layout, i),
                   chunkId |-> <<"chunk", i, 0>>,
                   sectionTitle |-> TitleOf(layout, SectionOf(layout, i)),
                   embeddingText |-> 0]]

\* keys of the embedding files; under "orphans" the first Q&A pair and the
\* second chunk have no embedding
MakeQAEmbeddings(layout, n) ==
  IF layout = "orphans" THEN 2..n ELSE 1..n

MakeChunkEmbeddings(layout, n) ==
  {<<"chunk", i, 0>> : i \in (IF layout = "orphans" THEN (1..n) \ {2} ELSE 1..n)}

DataSets ==
  {[qaPairs |-> MakeQAPairs(l, nq),
    qaEmbeddings |-> MakeQAEmbeddings(l, nq),
    chunks |-> MakeChunks(l, nc),
    chunkEmbeddings |-> MakeChunkEmbeddings(l, nc)] :
      l \in Layouts, nq \in QASizes, nc \in ChunkSizes}

\* small data sets for the runs over query texts: no data, questions only,
\* chunks only, both
TextDataSets ==
  {[qaPairs |-> MakeQAPairs("cyclic", nq),
    qaEmbeddings |-> MakeQAEmbeddings("cyclic", nq),
    chunks |-> MakeChunks("cyclic", nc),
    chunkEmbeddings |-> MakeChunkEmbeddings("cyclic", nc)] :
      nq \in {0, 3}, nc \in {0, 2}}

(***************************************************************************)
(* Query embeddings.  The embedding model is opaque; a query embedding is  *)
(* identified with the similarity it has to every stored embedding: a      *)
(* pair of scores for the first two entries of each list, repeated over    *)
(* the following entries with a fixed decay per repetition.                *)
(***************************************************************************)
QAScoreVals == {54, 56, 58, 65, 75}
ContentScoreVals == {54, 58, 75}
ScoreDecays == {0, 3}

QueryEmbeddings ==
  [qa : QAScoreVals \X QAScoreVals,
   content : ContentScoreVals \X ContentScoreVals,
   decay : ScoreDecays]

PatternScore(pat, decay, i) == pat[((i - 1) % 2) + 1] - decay * ((i - 1) \div 2)

(***************************************************************************)
(* Text.  A string is the sequence of its characters, each a one-character *)
(* string, so that case folding, splitting, substring tests and edit       *)
(* distances are computed character by character.                          *)
(***************************************************************************)
LowerLetters ==
  {"a", "b", "c", "d", "e", "f", "g", "h", "i", "j", "k", "l", "m", "n", "o", "p", "q", "r", "s",
   "t", "u", "v", "w", "x", "y", "z"}
UpperLetters ==
  {"A", "B", "C", "D", "E", "F", "G", "H", "I", "J", "K", "L", "M", "N", "O", "P", "Q", "R", "S",
   "T", "U", "V", "W", "X", "Y", "Z"}
Digits == {"0", "1", "2", "3", "4", "5", "6", "7", "8", "9"}
Whitespace == {" "}

\* the lower-case letter of an upper-case one
LowerOf ==
  [c \in UpperLetters |->
     CASE c = "A" -> "a"
       [] c = "B" -> "b"
       [] c = "C" -> "c"
       [] c = "D" -> "d"
       [] c = "E" -> "e"
       [] c = "F" -> "f"
       [] c = "G" -> "g"
       [] c = "H" -> "h"
       [] c = "I" -> "i"
       [] c = "J" -> "j"
       [] c = "K" -> "k"
       [] c = "L" -> "l"
       [] c = "M" -> "m"
       [] c = "N" -> "n"
       [] c = "O" -> "o"
       [] c = "P" -> "p"
       [] c = "Q" -> "q"
       [] c = "R" -> "r"
       [] c = "S" -> "s"
       [] c = "T" -> "t"
       [] c = "U" -> "u"
       [] c = "V" -> "v"
       [] c = "W" -> "w"
       [] c = "X" -> "x"
       [] c = "Y" -> "y"
       [] c = "Z" -> "z"]

\* `s.toLowerCase()`
toLowerCase(s) ==
  [i \in 1..Len(s) |-> IF s[i] \in UpperLetters THEN LowerOf[s[i]] ELSE s[i]]

\* `s.includes(sub)`
includes(s, sub) ==
  \E i \in 0..(Len(s) - Len(sub)) : SubSeq(s, i + 1, i + Len(sub)) = sub

\* `/^[a-zA-Z]+$/.test(s)`
IsAlphabetic(s) ==
  /\ s # << >>
  /\ \A i \in 1..Len(s) : s[i] \in LowerLetters \cup UpperLetters

\* the rest of s behind its leading whitespace
RECURSIVE SkipWhitespace(_)
SkipWhitespace(s) ==
  IF s # << >> /\ Head(s) \in Whitespace THEN SkipWhitespace(Tail(s)) ELSE s

\* `s.split(/\s+/)`: a run of whitespace separates two tokens, so that
\* leading or trailing whitespace gives an empty first or last token
RECURSIVE SplitFrom(_, _)
SplitFrom(s, token) ==
  IF s = << >> THEN <<token>>
  ELSE IF Head(s) \in Whitespace
       THEN <<token>> \o SplitFrom(SkipWhitespace(s), << >>)
       ELSE SplitFrom(Tail(s), Append(token, Head(s)))

split(s) == SplitFrom(s, << >>)

\* `words.join(" ")`
RECURSIVE join(_)
join(words) ==
  IF words = << >> THEN << >>
  ELSE IF Len(words) = 1 THEN words[1]
       ELSE words[1] \o <<" ">> \o join(Tail(words))

\* `s.match(/[a-z]+/g) || []`: the maximal runs of lower-case letters
RECURSIVE MatchFrom(_, _)
MatchFrom(s, run) ==
  IF s = << >> THEN (IF run = << >> THEN << >> ELSE <<run>>)
  ELSE IF Head(s) \in LowerLetters
       THEN MatchFrom(Tail(s), Append(run, Head(s)))
       ELSE (IF run = << >> THEN << >> ELSE <<run>>) \o MatchFrom(Tail(s), << >>)

matchLowerRuns(s) == MatchFrom(s, << >>)

\* the decimal digits of a natural number
RECURSIVE Decimal(_)
Decimal(n) ==
  LET digit == <<"0", "1", "2", "3", "4", "5", "6", "7", "8", "9">>[(n % 10) + 1]
  IN IF n < 10 THEN <<digit>> ELSE Append(Decimal(n \div 10), digit)

Min3(x, y, z) ==
  IF x <= y THEN (IF x <= z THEN x ELSE z) ELSE (IF y <= z THEN y ELSE z)

\* one row matrix[i][0..|a|] from the row above it; row holds the entries
\* computed so far, prev and row are indexed from 1 for column 0
RECURSIVE LevenshteinRow(_, _, _, _)
LevenshteinRow(prev, bChar, a, row) ==
  IF Len(row) > Len(a) THEN row
  ELSE LET j == Len(row)
       IN LevenshteinRow(prev, bChar, a,
            Append(row, IF bChar = a[j] THEN prev[j]
                        ELSE Min3(prev[j] + 1, row[j] + 1, prev[j + 1] + 1)))

RECURSIVE LevenshteinRows(_, _, _, _)
LevenshteinRows(prev, a, b, i) ==
  IF i > Len(b) THEN prev
  ELSE LevenshteinRows(LevenshteinRow(prev, b[i], a, <<i>>), a, b, i + 1)

\* matrix[b.length][a.length] of the full dynamic-programming matrix
levenshteinDistance(a, b) ==
  LevenshteinRows([j \in 1..(Len(a) + 1) |-> j - 1], a, b, 1)[Len(a) + 1]

\* the stoplist of words that are never corrected
COMMON_WORDS ==
  {<<"t", "h", "e">>, <<"a">>, <<"a", "n">>, <<"i", "s">>, <<"a", "r", "e">>, <<"w", "a", "s">>,
   <<"w", "e", "r", "e">>, <<"b", "e">>, <<"b", "e", "e", "n">>, <<"b", "e", "i", "n", "g">>,
   <<"h", "a", "v", "e">>, <<"h", "a", "s">>, <<"h", "a", "d">>, <<"d", "o">>,
   <<"d", "o", "e", "s">>, <<"d", "i", "d">>, <<"w", "i", "l", "l">>, <<"w", "o", "u", "l", "d">>,
   <<"c", "o", "u", "l", "d">>, <<"s", "h", "o", "u", "l", "d">>, <<"m", "a", "y">>,
   <<"m", "i", "g", "h", "t">>, <<"m", "u", "s", "t">>, <<"c", "a", "n">>, <<"t", "o">>,
   <<"o", "f">>, <<"i", "n">>, <<"f", "o", "r">>, <<"o", "n">>, <<"w", "i", "t", "h">>,
   <<"a", "t">>, <<"b", "y">>, <<"f", "r", "o", "m">>, <<"a", "b", "o", "u", "t">>,
   <<"i", "n", "t", "o">>, <<"t", "h", "r", "o", "u", "g", "h">>, <<"d", "u", "r", "i", "n", "g">>,
   <<"b", "e", "f", "o", "r", "e">>, <<"a", "f", "t", "e", "r">>, <<"a", "b", "o", "v", "e">>,
   <<"b", "e", "l", "o", "w">>, <<"b", "e", "t", "w", "e", "e", "n">>, <<"u", "n", "d", "e", "r">>,
   <<"a", "g", "a", "i", "n">>, <<"f", "u", "r", "t", "h", "e", "r">>, <<"t", "h", "e", "n">>,
   <<"o", "n", "c", "e">>, <<"h", "e", "r", "e">>, <<"t", "h", "e", "r", "e">>,
   <<"w", "h", "e", "n">>, <<"w", "h", "e", "r", "e">>, <<"w", "h", "y">>, <<"h", "o", "w">>,
   <<"a", "l", "l">>, <<"e", "a", "c", "h">>, <<"e", "v", "e", "r", "y">>, <<"b", "o", "t", "h">>,
   <<"f", "e", "w">>, <<"m", "o", "r", "e">>, <<"m", "o", "s", "t">>, <<"o", "t", "h", "e", "r">>,
   <<"s", "o", "m", "e">>, <<"s", "u", "c", "h">>, <<"n", "o">>, <<"n", "o", "r">>,
   <<"n", "o", "t">>, <<"o", "n", "l", "y">>, <<"o", "w", "n">>, <<"s", "a", "m", "e">>,
   <<"s", "o">>, <<"t", "h", "a", "n">>, <<"t", "o", "o">>, <<"v", "e", "r", "y">>,
   <<"j", "u", "s", "t">>, <<"a", "l", "s", "o">>, <<"m", "y">>, <<"y", "o", "u", "r">>,
   <<"h", "i", "s">>, <<"h", "e", "r">>, <<"i", "t", "s">>, <<"o", "u", "r">>,
   <<"t", "h", "e", "i", "r">>, <<"t", "h", "i", "s">>, <<"t", "h", "a", "t">>,
   <<"t", "h", "e", "s", "e">>, <<"w", "h", "a", "t">>, <<"w", "h", "i", "c", "h">>,
   <<"w", "h", "o">>, <<"w", "h", "o", "m">>, <<"i", "f">>, <<"o", "r">>, <<"a", "n", "d">>,
   <<"b", "u", "t">>, <<"b", "e", "c", "a", "u", "s", "e">>, <<"a", "s">>,
   <<"u", "n", "t", "i", "l">>, <<"w", "h", "i", "l", "e">>,
   <<"a", "l", "t", "h", "o", "u", "g", "h">>, <<"t", "h", "o", "u", "g", "h">>,
   <<"s", "i", "n", "c", "e">>, <<"i">>, <<"y", "o", "u">>, <<"h", "e">>, <<"s", "h", "e">>,
   <<"i", "t">>, <<"w", "e">>, <<"t", "h", "e", "y">>, <<"m", "e">>, <<"h", "i", "m">>,
   <<"t", "h", "e", "m">>, <<"u", "s">>, <<"k", "i", "d">>, <<"k", "i", "d", "s">>,
   <<"c", "h", "i", "l", "d">>, <<"b", "a", "b", "y">>, <<"d", "o", "g">>, <<"c", "a", "t">>,
   <<"p", "e", "t">>, <<"p", "e", "t", "s">>, <<"r", "a", "i", "n">>, <<"s", "u", "n">>,
   <<"d", "e", "a", "l">>, <<"t", "e", "d", "d", "y">>, <<"b", "e", "a", "r">>,
   <<"p", "o", "o", "l">>, <<"s", "w", "i", "m">>, <<"f", "i", "e", "l", "d">>,
   <<"t", "r", "i", "p">>, <<"h", "o", "m", "e", "w", "o", "r", "k">>, <<"h", "e", "l", "p">>,
   <<"b", "r", "i", "n", "g">>, <<"t", "a", "k", "e">>, <<"p", "u", "t">>, <<"g", "e", "t">>,
   <<"g", "i", "v", "e">>, <<"m", "a", "k", "e">>, <<"g", "o">>, <<"c", "o", "m", "e">>,
   <<"s", "e", "e">>, <<"k", "n", "o", "w">>, <<"t", "h", "i", "n", "k">>, <<"w", "a", "n", "t">>,
   <<"n", "e", "e", "d">>, <<"u", "s", "e">>, <<"f", "i", "n", "d">>, <<"t", "e", "l", "l">>,
   <<"a", "s", "k">>, <<"w", "o", "r", "k">>, <<"p", "l", "a", "y">>, <<"t", "r", "y">>,
   <<"l", "e", "a", "v", "e">>, <<"c", "a", "l", "l">>, <<"k", "e", "e", "p">>, <<"l", "e", "t">>,
   <<"b", "e", "g", "i", "n">>, <<"s", "e", "e", "m">>, <<"s", "h", "o", "w">>,
   <<"h", "e", "a", "r">>, <<"r", "u", "n">>, <<"m", "o", "v", "e">>, <<"l", "i", "v", "e">>,
   <<"b", "e", "l", "i", "e", "v", "e">>, <<"h", "o", "l", "d">>, <<"h", "a", "p", "p", "e", "n">>,
   <<"a", "l", "l", "o", "w">>, <<"m", "e", "e", "t">>, <<"p", "a", "y">>, <<"s", "e", "n", "d">>,
   <<"e", "x", "p", "e", "c", "t">>, <<"b", "u", "i", "l", "d">>, <<"s", "t", "a", "y">>,
   <<"f", "a", "l", "l">>, <<"c", "u", "t">>, <<"r", "e", "a", "c", "h">>, <<"k", "i", "l", "l">>,
   <<"r", "e", "m", "a", "i", "n">>}

Abs(x) == IF x < 0 THEN -x ELSE x

(***************************************************************************)
(* The text of the corpus.  A question is identified by its index; its     *)
(* characters are one of three wordings followed by that index.  The       *)
(* content of a chunk is one of four wordings, its category one of four.   *)
(***************************************************************************)
QuestionWordings ==
  <<<<"W", "h", "a", "t", " ", "t", "e", "m", "p", "e", "r", "a", "t", "u", "r", "e", " ", "f",
      "o", "r", " ", "m", "i", "l", "k", " ", "s", "t", "o", "r", "a", "g", "e", "?">>,
    <<"D", "i", "a", "p", "e", "r", " ", "c", "h", "a", "n", "g", "i", "n", "g", " ", "r", "u",
      "l", "e", "s">>,
    <<"H", "o", "w", " ", "m", "a", "n", "y", " ", "c", "h", "i", "l", "d", "r", "e", "n", " ",
      "p", "e", "r", " ", "s", "t", "a", "f", "f", " ", "m", "e", "m", "b", "e", "r", "?">>>>

\* qa.question as characters
QuestionText(question) ==
  QuestionWordings[((question - 1) % Len(QuestionWordings)) + 1] \o <<" ">> \o Decimal(question)

ContentWordings ==
  <<<<"S", "t", "o", "r", "e", " ", "f", "o", "r", "m", "u", "l", "a", " ", "a", "n", "d", " ",
      "o", "t", "h", "e", "r", " ", "s", "t", "u", "f", "f", " ", "i", "n", " ", "a", " ", "b",
      "o", "t", "t", "l", "e", " ", "f", "o", "r", " ", "u", "p", " ", "t", "o", " ", "2", "4",
      " ", "h", "o", "u", "r", "s", ".">>,
    <<"S", "t", "a", "f", "f", " ", "m", "u", "s", "t", " ", "t", "e", "a", "c", "h", " ", "c",
      "h", "i", "l", "d", "r", "e", "n", " ", "t", "o", " ", "w", "a", "s", "h", " ", "h", "a",
      "n", "d", "s", " ", "b", "e", "f", "o", "r", "e", " ", "a", " ", "f", "i", "e", "l", "d",
      " ", "t", "r", "i", "p", ".">>,
    <<"U", "s", "e", " ", "t", "h", "e", " ", "2", "n", "d", " ", "s", "h", "e", "l", "f", " ",
      "o", "f", " ", "t", "h", "e", " ", "f", "r", "i", "d", "g", "e", ".">>,
    <<"A", "t", " ", "l", "e", "a", "s", "t", " ", "1", " ", "t", "e", "a", "c", "h", "e", "r",
      " ", "f", "o", "r", " ", "1", "0", " ", "k", "i", "d", "s", ".">>>>

\* chunk.content as characters
ContentText(chunkId) == ContentWordings[((chunkId[2] - 1) % Len(ContentWordings)) + 1]

Categories == <<"Food & Nutrition", "Health & Safety", "General", "Staffing">>

\* chunk.category
CategoryOf(chunkId) == Categories[((chunkId[2] - 1) % Len(Categories)) + 1]

\* chunk.sectionTitle as characters
TitleText(sectionTitle) == <<"S", "e", "c", "t", "i", "o", "n", " ">> \o Decimal(sectionTitle)

(***************************************************************************)
(* Typo correction: buildVocabulary, findBestMatch, correctQuery.          *)
(***************************************************************************)
\* `if (word.length >= minLength)` over the words of one text
LongWords(words, minLength) == SelectSeq(words, LAMBDA word : Len(word) >= minLength)

\* the words the first loop of buildVocabulary adds, in the order of the adds
RECURSIVE QuestionWords(_)
QuestionWords(pairs) ==
  IF pairs = << >> THEN << >>
  ELSE LongWords(matchLowerRuns(toLowerCase(QuestionText(Head(pairs).question))), 3)
       \o QuestionWords(Tail(pairs))

\* the words the second loop adds
RECURSIVE ContentWords(_)
ContentWords(cs) ==
  IF cs = << >> THEN << >>
  ELSE LongWords(matchLowerRuns(toLowerCase(ContentText(Head(cs).chunkId))), 4)
       \o ContentWords(Tail(cs))

\* a Set keeps each element at the place of its first add
FirstAdds(added) == {i \in 1..Len(added) : \A j \in 1..(i - 1) : added[j] # added[i]}

InsertionOrder(added, firsts) ==
  [p \in 1..Cardinality(firsts) |->
     added[CHOOSE i \in firsts : Cardinality({j \in firsts : j < i}) = p - 1]]

\* the Set built from a sequence of adds, as the sequence of its iteration
SetOfAdds(added) ==
  CHOOSE set \in {InsertionOrder(added, firsts) : firsts \in {FirstAdds(added)}} : TRUE

\* the vocabulary after buildVocabulary(), in iteration order
buildVocabulary(pairs, cs) ==
  CHOOSE vocab \in {SetOfAdds(added) : added \in {QuestionWords(pairs) \o ContentWords(cs)}} :
    TRUE

\* `vocabulary.has(lower)`
InVocabulary(vocab, lower) == \E i \in 1..Len(vocab) : vocab[i] = lower

\* words of fewer than four characters only
IsShortWordFour(lower) == Len(lower) < 4

\* `lower.length < 5`
IsShortWord(lower) == Len(lower) < 5

\* no tolerance below eight characters
maxDistanceLongOnly(lower) == IF Len(lower) >= 8 THEN 2 ELSE 0

\* `lower.length >= 8 ? 2 : 1`
maxDistanceOf(lower) == IF Len(lower) >= 8 THEN 2 ELSE 1

\* the length check alone
IsSkippedLengthOnly(lower, vocabWord, maxDistance) ==
  Abs(Len(vocabWord) - Len(lower)) > maxDistance

\* the two `continue` tests of the loop over the vocabulary
IsSkipped(lower, vocabWord, maxDistance) ==
  \/ Abs(Len(vocabWord) - Len(lower)) > maxDistance
  \/ includes(lower, vocabWord)
  \/ includes(vocabWord, lower)

\* null
Null == << >>

\* the loop over the vocabulary; bestMatch is null exactly while
\* bestDistance is Infinity
RECURSIVE FindClosest(_, _, _, _, _, _)
FindClosest(lower, vocab, i, maxDistance, bestMatch, bestDistance) ==
  IF i > Len(vocab) THEN bestMatch
  ELSE IF IsSkipped(lower, vocab[i], maxDistance)
       THEN FindClosest(lower, vocab, i + 1, maxDistance, bestMatch, bestDistance)
       ELSE LET distance == levenshteinDistance(lower, vocab[i])
            IN IF (bestMatch = Null \/ distance < bestDistance) /\ distance <= maxDistance
               THEN FindClosest(lower, vocab, i + 1, maxDistance, vocab[i], distance)
               ELSE FindClosest(lower, vocab, i + 1, maxDistance, bestMatch, bestDistance)

findBestMatch(word, vocab) ==
  LET lower == toLowerCase(word)
  IN IF InVocabulary(vocab, lower) THEN Null
     ELSE IF lower \in COMMON_WORDS THEN Null
     ELSE IF IsShortWord(lower) THEN Null
     ELSE FindClosest(lower, vocab, 1, maxDistanceOf(lower), Null, 0)

\* the loop of correctQuery over the tokens
RECURSIVE CorrectWords(_, _, _, _)
CorrectWords(words, vocab, correctedWords, hadCorrections) ==
  IF words = << >>
  THEN [correctedWords |-> correctedWords, hadCorrections |-> hadCorrections]
  ELSE LET word == Head(words)
       IN IF Len(word) < 3 \/ ~IsAlphabetic(word)
          THEN CorrectWords(Tail(words), vocab, Append(correctedWords, word), hadCorrections)
          ELSE LET correction == findBestMatch(word, vocab)
               IN IF correction # Null
                  THEN CorrectWords(Tail(words), vocab, Append(correctedWords, correction), TRUE)
                  ELSE CorrectWords(Tail(words), vocab,
                                    Append(correctedWords, toLowerCase(word)), hadCorrections)

\* correctQuery(query) over the vocabulary; the tokens and their
\* replacements are kept beside the returned pair
correctQuery(query, vocab) ==
  LET words == split(query)
      done == CorrectWords(words, vocab, << >>, FALSE)
  IN [words |-> words,
      correctedWords |-> done.correctedWords,
      corrected |-> join(done.correctedWords),
      hadCorrections |-> done.hadCorrections]

VARIABLES
  dataFiles,        \* the data set served under /data
  initPc,           \* position of doInitQASearch
  isInitializing,
  embedder,         \* TRUE once the pipeline is loaded (embedder !== null)
  qaPairs,
  qaEmbeddings,     \* keys of the Map question -> embedding
  chunks,
  chunkEmbeddings,  \* keys of the Map chunkId -> embedding
  pc,               \* position of the hybridSearch call
  topK,             \* argument of the call in flight
  qaResults,        \* locals of hybridSearch, kept for inspection
  contentResults,
  rrfScores,
  sortedResults,
  finalResults,
  response,         \* the HybridSearchResponse returned, or the error thrown
  vocabulary,       \* the Set of known words, in iteration order
  query,            \* argument of the call in flight
  correction,       \* what correctQuery(query) gave
  embedCalls,       \* the texts handed to the embedder by the call in flight
  lastFailure,      \* the query of the latest completed call if its embedding failed
  sInitPc,          \* position of the initSearch run in progress
  sInitRuns,        \* number of initSearch runs started
  extractor,        \* TRUE once the embedding pipeline is loaded (extractor !== null)
  rerankerTokenizer,
  rerankerModel,
  sChunks,          \* `chunks` of the dense + BM25 search module
  embeddings,       \* keys of its Map chunkId -> embedding
  bm25,             \* its BM25 index
  sPc,              \* position of the search call
  sQuery,           \* arguments and locals of search, kept for inspection
  sTopK,
  expandedQuery,
  semanticScores,
  bm25Results,
  fusedScores,
  sResults,         \* `results` of search
  sResponse,        \* the list returned by search, or the error thrown
  bm25Scores,       \* the array BM25.search returned to the call in flight
  initPromise,      \* 0 for null, n for the promise of the nth doInitQASearch run
  initReturns,      \* the promise each call of initQASearch returned and the
                    \* position of doInitQASearch at the call, in call order
  harness,          \* what the last run of testHybridSearch worked out
  calls,            \* the hybridSearch calls made by doSearch, in issue order
  hook              \* the state of the useSearch hook

vars == <<dataFiles, initPc, isInitializing, embedder, qaPairs, qaEmbeddings,
          chunks, chunkEmbeddings, pc, topK, qaResults, contentResults,
          rrfScores, sortedResults, finalResults, response, vocabulary,
          query, correction, embedCalls, lastFailure, sInitPc, sInitRuns,
          extractor, rerankerTokenizer, rerankerModel, sChunks, embeddings,
          bm25, sPc, sQuery, sTopK, expandedQuery, semanticScores, bm25Results,
          fusedScores, sResults, sResponse, bm25Scores, initPromise,
          initReturns, harness, calls, hook>>

corpusVars == <<qaPairs, qaEmbeddings, chunks, chunkEmbeddings>>
localVars == <<qaResults, contentResults, rrfScores, sortedResults, finalResults>>

queryVars == <<query, correction, embedCalls>>
initCallVars == <<initPromise, initReturns>>
clientVars == <<harness, calls, hook>>

NoResponse == [kind |-> "none"]

\* the variables of the Q&A search module and of its calls
qaVars == <<dataFiles, initPc, isInitializing, embedder, corpusVars, pc, topK, localVars,
            response, vocabulary, queryVars, lastFailure, initCallVars, clientVars>>

\* the variables of the dense + BM25 search module and of its calls
searchModule == <<extractor, rerankerTokenizer, rerankerModel, sChunks, embeddings, bm25>>
searchLocals == <<sQuery, sTopK, expandedQuery, semanticScores, bm25Scores, bm25Results,
                  fusedScores, sResults>>
searchVars == <<sInitPc, sInitRuns, searchModule, sPc, searchLocals, sResponse>>

\* `let bm25: BM25 | null = null`
NoBM25 == [indexed |-> FALSE, numDocs |-> 0, termFreqs |-> << >>, docFreqs |-> << >>]

\* the dense + BM25 search module just loaded, no call in flight
SearchFresh ==
  /\ sInitPc = [run \in 1..MaxInitRuns |-> "idle"]
  /\ sInitRuns = 0
  /\ extractor = FALSE
  /\ rerankerTokenizer = FALSE
  /\ rerankerModel = FALSE
  /\ sChunks = << >>
  /\ embeddings = {}
  /\ bm25 = NoBM25
  /\ sPc = "idle"
  /\ sQuery = << >>
  /\ sTopK = 0
  /\ expandedQuery = << >>
  /\ semanticScores = << >>
  /\ bm25Scores = << >>
  /\ bm25Results = << >>
  /\ fusedScores = << >>
  /\ sResults = << >>
  /\ sResponse = NoResponse

\* `let initPromise: Promise<void> | null = null`, no call made yet
NotCalled == initPromise = 0 /\ initReturns = << >>

\* one call of initQASearch has been made
CalledOnce == initPromise = 1 /\ initReturns = <<[promise |-> 1, at |-> "idle"]>>

NoHarness == [kind |-> "none"]

\* the useState initial values of the hook; `progress` only feeds the
\* progress bar and is left out; effects counts the runs of the mount effect
\* and pending the initQASearch promises the hook waits for
HookInitial ==
  [isLoading |-> TRUE, isReady |-> FALSE, isSearching |-> FALSE, results |-> << >>,
   error |-> "null", confidence |-> "high", topicCovered |-> TRUE,
   correctedQuery |-> Null, effects |-> 0, pending |-> 0]

\* no harness run, no hook mounted
ClientFresh == harness = NoHarness /\ calls = << >> /\ hook = HookInitial

NoCorrection ==
  [words |-> << >>, correctedWords |-> << >>, corrected |-> << >>, hadCorrections |-> FALSE]
NoFailure == [failed |-> FALSE, query |-> << >>]

(***************************************************************************)
(* Pure helpers of hybridSearch.                                           *)
(***************************************************************************)
\* cosineSimilarity(queryEmbedding, stored embedding of a Q&A question)
cosineSimilarityQA(queryEmbedding, question) ==
  PatternScore(queryEmbedding.qa, queryEmbedding.decay, question)

\* cosineSimilarity(queryEmbedding, stored embedding of a chunk)
cosineSimilarityChunk(queryEmbedding, chunkId) ==
  PatternScore(queryEmbedding.content, queryEmbedding.decay, chunkId[2])

\* the loop over the Q&A pairs without its `continue`
RECURSIVE ScoreQAPairsNoSkip(_, _, _)
ScoreQAPairsNoSkip(pairs, embKeys, queryEmbedding) ==
  IF pairs = << >> THEN << >>
  ELSE LET qa == Head(pairs)
       IN <<[qa |-> qa,
             score |-> cosineSimilarityQA(queryEmbedding, qa.question),
             matchedQuestion |-> qa.question]>>
          \o ScoreQAPairsNoSkip(Tail(pairs), embKeys, queryEmbedding)

\* `for (const qa of qaPairs) { if (!qaEmbedding) continue; push({qa, score}) }`
RECURSIVE ScoreQAPairs(_, _, _)
ScoreQAPairs(pairs, embKeys, queryEmbedding) ==
  IF pairs = << >> THEN << >>
  ELSE LET qa == Head(pairs)
           rest == ScoreQAPairs(Tail(pairs), embKeys, queryEmbedding)
       IN IF qa.question \notin embKeys THEN rest
          ELSE <<[qa |-> qa,
                  score |-> cosineSimilarityQA(queryEmbedding, qa.question),
                  matchedQuestion |-> qa.question]>> \o rest

\* `for (const chunk of chunks) { if (!embedding) continue; push({chunk, score}) }`
RECURSIVE ScoreChunks(_, _, _)
ScoreChunks(cs, embKeys, queryEmbedding) ==
  IF cs = << >> THEN << >>
  ELSE LET chunk == Head(cs)
           rest == ScoreChunks(Tail(cs), embKeys, queryEmbedding)
       IN IF chunk.chunkId \notin embKeys THEN rest
          ELSE <<[chunk |-> chunk,
                  score |-> cosineSimilarityChunk(queryEmbedding, chunk.chunkId)]>>
               \o rest

\* Array.prototype.sort is stable: an element goes behind every element
\* the comparator does not put after it.
\* `sort((a, b) => b.score - a.score)`
RECURSIVE InsertByScore(_, _)
InsertByScore(e, s) ==
  IF s = << >> THEN <<e>>
  ELSE IF Head(s).score >= e.score
       THEN <<Head(s)>> \o InsertByScore(e, Tail(s))
       ELSE <<e>> \o s

RECURSIVE SortByScore(_)
SortByScore(s) ==
  IF s = << >> THEN << >>
  ELSE InsertByScore(s[Len(s)], SortByScore(SubSeq(s, 1, Len(s) - 1)))

\* `slice(0, n)`
Slice(s, n) == IF Len(s) <= n THEN s ELSE SubSeq(s, 1, n)

\* the Q&A window one entry too wide
QAAsResultsWide(qaRes) ==
  LET w == Slice(qaRes, QA_WINDOW + 1)
  IN [i \in 1..Len(w) |->
        [chunk |-> [id |-> w[i].qa.sectionId,
                    chunkId |-> <<"qa", w[i].qa.sectionId, i - 1>>,
                    sectionTitle |-> w[i].qa.sectionTitle,
                    embeddingText |-> w[i].qa.question],
         score |-> w[i].score,
         isQA |-> TRUE,
         originalRank |-> i - 1]]

\* `qaResults.slice(0, 10).map((r, rank) => ({ chunk: {...}, score, isQA: true, originalRank: rank }))`
QAAsResults(qaRes) ==
  LET w == Slice(qaRes, QA_WINDOW)
  IN [i \in 1..Len(w) |->
        [chunk |-> [id |-> w[i].qa.sectionId,
                    chunkId |-> <<"qa", w[i].qa.sectionId, i - 1>>,
                    sectionTitle |-> w[i].qa.sectionTitle,
                    embeddingText |-> w[i].qa.question],
         score |-> w[i].score,
         isQA |-> TRUE,
         originalRank |-> i - 1]]

\* `contentResults.slice(0, 20).map((r, rank) => ({ chunk: r.chunk, score, isQA: false, originalRank: rank }))`
ContentAsResults(contentRes) ==
  LET w == Slice(contentRes, CONTENT_WINDOW)
  IN [i \in 1..Len(w) |->
        [chunk |-> w[i].chunk,
         score |-> w[i].score,
         isQA |-> FALSE,
         originalRank |-> i - 1]]

\* `qaResults[0]?.score ?? 0`
BestScore(res) == IF res = << >> THEN 0 ELSE res[1].score

\* the weight with the Q&A boost applied whatever the best scores are
WeightAlwaysBoosted(result, bestQAScore, bestContentScore) ==
  IF result.isQA THEN WEIGHT_QA_BOOST ELSE WEIGHT_PLAIN

\* the weight with the boost withheld when the best scores are equal
WeightTieUnboosted(result, bestQAScore, bestContentScore) ==
  IF result.isQA
  THEN IF bestContentScore >= bestQAScore THEN WEIGHT_PLAIN ELSE WEIGHT_QA_BOOST
  ELSE WEIGHT_PLAIN

\* the adaptive weight of one candidate, in tenths
Weight(result, bestQAScore, bestContentScore) ==
  IF result.isQA
  THEN IF bestContentScore > bestQAScore THEN WEIGHT_PLAIN ELSE WEIGHT_QA_BOOST
  ELSE WEIGHT_PLAIN

\* the fused score without the weight
RRFScoreUnweighted(weight, rank) == [num |-> WEIGHT_PLAIN, den |-> k + rank + 1]

\* `weight / (k + rank + 1)` as the exact rational (num / 10) / den
RRFScore(weight, rank) == [num |-> weight, den |-> k + rank + 1]

\* numerator of a - b over the positive denominator a.den * b.den
RatDiffNum(a, b) == a.num * b.den - b.num * a.den

RatGreater(a, b) == RatDiffNum(a, b) > 0

\* `${result.chunk.id}-${result.isQA ? 'qa' : 'content'}`
KeyOf(result) == <<result.chunk.id, IF result.isQA THEN "qa" ELSE "content">>

\* the loop with an unconditional rrfScores.set: the last candidate of a key
\* replaces the earlier ones
RECURSIVE BuildRRFScoresLastWins(_, _, _, _)
BuildRRFScoresLastWins(all, bestQAScore, bestContentScore, map) ==
  IF all = << >> THEN map
  ELSE LET result == Head(all)
           key == <<result.chunk.id, IF result.isQA THEN "qa" ELSE "content">>
           rrfScore == [num |-> IF result.isQA /\ ~(bestContentScore > bestQAScore)
                                THEN WEIGHT_QA_BOOST ELSE WEIGHT_PLAIN,
                        den |-> k + result.originalRank + 1]
           entry == [key |-> key, result |-> result, rrfScore |-> rrfScore]
           at == {i \in 1..Len(map) : map[i].key = key}
           next ==
             IF at = {} THEN Append(map, entry)
             ELSE [map EXCEPT ![CHOOSE j \in at : TRUE] = entry]
       IN BuildRRFScoresLastWins(Tail(all), bestQAScore, bestContentScore, next)

\* the Map rrfScores as the sequence of its entries in insertion order:
\* `if (!existing || rrfScore > existing.rrfScore) rrfScores.set(key, ...)`
RECURSIVE BuildRRFScores(_, _, _, _)
BuildRRFScores(all, bestQAScore, bestContentScore, map) ==
  IF all = << >> THEN map
  ELSE LET result == Head(all)
           key == KeyOf(result)
           rrfScore == RRFScore(Weight(result, bestQAScore, bestContentScore),
                                result.originalRank)
           entry == [key |-> key, result |-> result, rrfScore |-> rrfScore]
           at == {i \in 1..Len(map) : map[i].key = key}
           next ==
             IF at = {} THEN Append(map, entry)
             ELSE LET i == CHOOSE j \in at : TRUE
                  IN IF RatGreater(rrfScore, map[i].rrfScore)
                     THEN [map EXCEPT ![i] = entry]
                     ELSE map
       IN BuildRRFScores(Tail(all), bestQAScore, bestContentScore, next)

\* sign of the comparator of the final sort: negative puts a first
\*   const rrfDiff = b.rrfScore - a.rrfScore
\*   if (Math.abs(rrfDiff) > 0.0001) return rrfDiff
\*   return b.result.score - a.result.score

\* the comparator with the tie-break turned round
CompareFusedTieAscending(a, b) ==
  LET diffNum == b.rrfScore.num * a.rrfScore.den - a.rrfScore.num * b.rrfScore.den
      diffDen == a.rrfScore.den * b.rrfScore.den
  IN IF (IF diffNum < 0 THEN -diffNum ELSE diffNum) * RRF_TIE_INV > diffDen
     THEN diffNum
     ELSE a.result.score - b.result.score

CompareFused(a, b) ==
  LET diffNum == RatDiffNum(b.rrfScore, a.rrfScore)
      diffDen == a.rrfScore.den * b.rrfScore.den
  IN IF Abs(diffNum) * RRF_TIE_INV > diffDen
     THEN diffNum
     ELSE b.result.score - a.result.score

\* `Array.from(rrfScores.values()).sort(...)`, stable
RECURSIVE InsertFused(_, _)
InsertFused(e, s) ==
  IF s = << >> THEN <<e>>
  ELSE IF CompareFused(Head(s), e) <= 0
       THEN <<Head(s)>> \o InsertFused(e, Tail(s))
       ELSE <<e>> \o s

RECURSIVE SortFused(_)
SortFused(s) ==
  IF s = << >> THEN << >>
  ELSE InsertFused(s[Len(s)], SortFused(SubSeq(s, 1, Len(s) - 1)))

\* the walk without the seenSections test
RECURSIVE DedupNoSeen(_, _, _, _)
DedupNoSeen(sorted, seenSections, acc, limit) ==
  IF sorted = << >> THEN acc
  ELSE LET result == Head(sorted).result
           pushed == Append(acc,
                     [chunk |-> result.chunk,
                      score |-> result.score,
                      source |-> IF result.isQA THEN "qa" ELSE "content"])
       IN IF Len(pushed) >= limit THEN pushed
          ELSE DedupNoSeen(Tail(sorted), seenSections, pushed, limit)

\* the de-duplication walk:
\*   if (seenSections.has(id)) continue; add; push; if (length >= topK) break
RECURSIVE Dedup(_, _, _, _)
Dedup(sorted, seenSections, acc, limit) ==
  IF sorted = << >> THEN acc
  ELSE LET result == Head(sorted).result
       IN IF result.chunk.id \in seenSections
          THEN Dedup(Tail(sorted), seenSections, acc, limit)
          ELSE LET pushed == Append(acc,
                     [chunk |-> result.chunk,
                      score |-> result.score,
                      source |-> IF result.isQA THEN "qa" ELSE "content"])
               IN IF Len(pushed) >= limit THEN pushed
                  ELSE Dedup(Tail(sorted), seenSections \cup {result.chunk.id},
                             pushed, limit)

\* `finalResults[i]?.score ?? 0`
ScoreAt(results, i) == IF Len(results) >= i THEN results[i].score ELSE 0

\* `new Set(finalResults.slice(0, 3).map(r => r.chunk.sectionTitle)).size`
UniqueSections(results) ==
  Cardinality({results[i].chunk.sectionTitle : i \in 1..(IF Len(results) < 3 THEN Len(results) ELSE 3)})

\* the decision with strict comparisons against the thresholds
ClassifyStrict(topScore, thirdScore, uniqueSections) ==
  IF topScore > CONFIDENCE_HIGH_THRESHOLD
  THEN [confidence |-> "high", topicCovered |-> TRUE]
  ELSE IF topScore > CONFIDENCE_MEDIUM_THRESHOLD
  THEN [confidence |-> "medium", topicCovered |-> TRUE]
  ELSE IF topScore > CONFIDENCE_LOW_THRESHOLD
  THEN IF uniqueSections >= 3 /\ DoubleGapBelow(topScore, thirdScore)
       THEN [confidence |-> "none", topicCovered |-> FALSE]
       ELSE [confidence |-> "low", topicCovered |-> TRUE]
  ELSE [confidence |-> "none", topicCovered |-> FALSE]

\* the decision with the gap comparison turned round
ClassifyGapFlipped(topScore, thirdScore, uniqueSections) ==
  IF topScore >= CONFIDENCE_HIGH_THRESHOLD
  THEN [confidence |-> "high", topicCovered |-> TRUE]
  ELSE IF topScore >= CONFIDENCE_MEDIUM_THRESHOLD
  THEN [confidence |-> "medium", topicCovered |-> TRUE]
  ELSE IF topScore >= CONFIDENCE_LOW_THRESHOLD
  THEN IF uniqueSections >= 3 /\ ~DoubleGapBelow(topScore, thirdScore)
       THEN [confidence |-> "none", topicCovered |-> FALSE]
       ELSE [confidence |-> "low", topicCovered |-> TRUE]
  ELSE [confidence |-> "none", topicCovered |-> FALSE]

\* the confidence decision
Classify(topScore, thirdScore, uniqueSections) ==
  IF topScore >= CONFIDENCE_HIGH_THRESHOLD
  THEN [confidence |-> "high", topicCovered |-> TRUE]
  ELSE IF topScore >= CONFIDENCE_MEDIUM_THRESHOLD
  THEN [confidence |-> "medium", topicCovered |-> TRUE]
  ELSE IF topScore >= CONFIDENCE_LOW_THRESHOLD
  THEN IF uniqueSections >= 3 /\ DoubleGapBelow(topScore, thirdScore)
       THEN [confidence |-> "none", topicCovered |-> FALSE]
       ELSE [confidence |-> "low", topicCovered |-> TRUE]
  ELSE [confidence |-> "none", topicCovered |-> FALSE]

\* the return without the not-covered branch
MakeResponseKeepResults(results, verdict, correctedQuery) ==
  [kind |-> "ok", results |-> results, correctedQuery |-> correctedQuery,
   confidence |-> verdict.confidence, topicCovered |-> verdict.topicCovered]

\* the value returned
MakeResponse(results, verdict, correctedQuery) ==
  IF ~verdict.topicCovered
  THEN [kind |-> "ok", results |-> << >>, correctedQuery |-> correctedQuery,
        confidence |-> "none", topicCovered |-> FALSE]
  ELSE [kind |-> "ok", results |-> results, correctedQuery |-> correctedQuery,
        confidence |-> verdict.confidence, topicCovered |-> verdict.topicCovered]

(***************************************************************************)
(* Dense + BM25 search: query expansion.                                   *)
(***************************************************************************)
\* the synonym table, in the order of Object.entries
SYNONYMS ==
  <<[term |-> <<"p", "u", "r", "e", "e">>,
     synonyms |->
       <<<<"l", "e", "f", "t", "o", "v", "e", "r">>,
         <<"p", "r", "e", "p", "a", "r", "e", "d", " ", "f", "o", "o", "d">>,
         <<"r", "e", "f", "r", "i", "g", "e", "r", "a", "t", "e", "d">>,
         <<"s", "t", "o", "r", "e", "d">>,
         <<"f", "o", "r", "t", "y", "-", "e", "i", "g", "h", "t", " ", "h", "o", "u", "r", "s">>>>],
    [term |-> <<"b", "a", "b", "y", " ", "f", "o", "o", "d">>,
     synonyms |->
       <<<<"l", "e", "f", "t", "o", "v", "e", "r">>,
         <<"p", "r", "e", "p", "a", "r", "e", "d", " ", "f", "o", "o", "d">>,
         <<"i", "n", "f", "a", "n", "t">>,
         <<"r", "e", "f", "r", "i", "g", "e", "r", "a", "t", "e", "d">>>>],
    [term |-> <<"h", "o", "m", "e", "m", "a", "d", "e", " ", "f", "o", "o", "d">>,
     synonyms |->
       <<<<"l", "e", "f", "t", "o", "v", "e", "r">>,
         <<"p", "r", "e", "p", "a", "r", "e", "d", " ", "f", "o", "o", "d">>,
         <<"r", "e", "f", "r", "i", "g", "e", "r", "a", "t", "e", "d">>>>],
    [term |-> <<"j", "u", "i", "c", "e">>,
     synonyms |->
       <<<<"b", "e", "v", "e", "r", "a", "g", "e">>, <<"d", "r", "i", "n", "k">>,
         <<"f", "l", "u", "i", "d">>, <<"n", "u", "t", "r", "i", "t", "i", "o", "n">>>>],
    [term |-> <<"c", "h", "o", "k", "i", "n", "g">>,
     synonyms |->
       <<<<"f", "o", "o", "d">>, <<"h", "a", "z", "a", "r", "d">>, <<"s", "a", "f", "e">>,
         <<"s", "i", "z", "e">>, <<"c", "u", "t">>>>],
    [term |-> <<"m", "i", "l", "k">>,
     synonyms |->
       <<<<"b", "r", "e", "a", "s", "t", " ", "m", "i", "l", "k">>,
         <<"f", "o", "r", "m", "u", "l", "a">>,
         <<"r", "e", "f", "r", "i", "g", "e", "r", "a", "t">>, <<"b", "o", "t", "t", "l", "e">>>>],
    [term |-> <<"t", "h", "r", "o", "w", " ", "o", "u", "t">>,
     synonyms |->
       <<<<"d", "i", "s", "c", "a", "r", "d">>, <<"d", "i", "s", "p", "o", "s", "e">>,
         <<"h", "o", "u", "r">>, <<"e", "x", "p", "i", "r", "e">>>>],
    [term |-> <<"n", "a", "p">>,
     synonyms |->
       <<<<"r", "e", "s", "t">>, <<"s", "l", "e", "e", "p">>, <<"i", "n", "f", "a", "n", "t">>>>],
    [term |-> <<"n", "a", "p", "t", "i", "m", "e">>,
     synonyms |->
       <<<<"s", "l", "e", "e", "p">>, <<"r", "e", "s", "t">>, <<"c", "r", "i", "b">>,
         <<"e", "q", "u", "i", "p", "m", "e", "n", "t">>>>],
    [term |-> <<"n", "a", "p", " ", "r", "o", "o", "m">>,
     synonyms |->
       <<<<"s", "l", "e", "e", "p">>, <<"r", "e", "s", "t">>, <<"c", "r", "i", "b">>,
         <<"e", "q", "u", "i", "p", "m", "e", "n", "t">>>>],
    [term |-> <<"b", "l", "a", "n", "k", "e", "t">>,
     synonyms |->
       <<<<"b", "e", "d", "d", "i", "n", "g">>, <<"c", "r", "i", "b">>,
         <<"s", "l", "e", "e", "p">>, <<"s", "o", "f", "t">>, <<"i", "n", "f", "a", "n", "t">>>>],
    [term |-> <<"c", "r", "i", "b">>,
     synonyms |->
       <<<<"s", "l", "e", "e", "p">>, <<"i", "n", "f", "a", "n", "t">>,
         <<"s", "a", "f", "e", " ", "s", "l", "e", "e", "p">>,
         <<"e", "q", "u", "i", "p", "m", "e", "n", "t">>>>],
    [term |-> <<"p", "l", "a", "y", "g", "r", "o", "u", "n", "d">>,
     synonyms |->
       <<<<"o", "u", "t", "d", "o", "o", "r">>,
         <<"p", "l", "a", "y", " ", "s", "p", "a", "c", "e">>,
         <<"p", "l", "a", "y", " ", "a", "r", "e", "a">>>>],
    [term |-> <<"o", "u", "t", "s", "i", "d", "e">>,
     synonyms |->
       <<<<"o", "u", "t", "d", "o", "o", "r">>, <<"p", "l", "a", "y", " ", "s", "p", "a", "c", "e">>>>],
    [term |-> <<"o", "u", "t", "s", "i", "d", "e", " ", "t", "i", "m", "e">>,
     synonyms |->
       <<<<"o", "u", "t", "d", "o", "o", "r">>, <<"p", "l", "a", "y">>,
         <<"p", "h", "y", "s", "i", "c", "a", "l", " ", "a", "c", "t", "i", "v", "i", "t", "y">>>>],
    [term |-> <<"d", "i", "a", "p", "e", "r">>,
     synonyms |->
       <<<<"d", "i", "a", "p", "e", "r", " ", "c", "h", "a", "n", "g", "i", "n", "g">>,
         <<"t", "o", "i", "l", "e", "t", "i", "n", "g">>>>],
    [term |-> <<"b", "a", "t", "h", "r", "o", "o", "m">>,
     synonyms |->
       <<<<"t", "o", "i", "l", "e", "t">>, <<"s", "i", "n", "k">>,
         <<"h", "a", "n", "d", "w", "a", "s", "h", "i", "n", "g">>, <<"d", "i", "a", "p", "e", "r">>>>],
    [term |-> <<"p", "o", "t", "t", "y">>,
     synonyms |->
       <<<<"t", "o", "i", "l", "e", "t">>, <<"t", "r", "a", "i", "n", "i", "n", "g">>,
         <<"b", "a", "t", "h", "r", "o", "o", "m">>>>],
    [term |-> <<"s", "i", "c", "k">>,
     synonyms |->
       <<<<"i", "l", "l">>, <<"i", "l", "l", "n", "e", "s", "s">>,
         <<"s", "y", "m", "p", "t", "o", "m">>, <<"c", "o", "n", "t", "a", "g", "i", "o", "u", "s">>>>],
    [term |-> <<"p", "i", "n", "k", " ", "e", "y", "e">>,
     synonyms |->
       <<<<"i", "l", "l", "n", "e", "s", "s">>,
         <<"c", "o", "n", "t", "a", "g", "i", "o", "u", "s">>,
         <<"e", "x", "c", "l", "u", "d", "e">>,
         <<"c", "o", "n", "j", "u", "n", "c", "t", "i", "v", "i", "t", "i", "s">>>>],
    [term |-> <<"l", "i", "c", "e">>,
     synonyms |->
       <<<<"i", "l", "l", "n", "e", "s", "s">>, <<"h", "e", "a", "d">>,
         <<"e", "x", "c", "l", "u", "d", "e">>, <<"c", "o", "n", "t", "a", "g", "i", "o", "u", "s">>>>],
    [term |-> <<"f", "e", "v", "e", "r">>,
     synonyms |->
       <<<<"i", "l", "l", "n", "e", "s", "s">>,
         <<"t", "e", "m", "p", "e", "r", "a", "t", "u", "r", "e">>,
         <<"e", "x", "c", "l", "u", "d", "e">>, <<"s", "i", "c", "k">>>>],
    [term |-> <<"b", "r", "u", "i", "s", "e">>,
     synonyms |->
       <<<<"i", "n", "j", "u", "r", "y">>, <<"i", "n", "c", "i", "d", "e", "n", "t">>,
         <<"r", "e", "p", "o", "r", "t">>, <<"h", "a", "r", "m">>>>],
    [term |-> <<"b", "o", "o", " ", "b", "o", "o">>,
     synonyms |->
       <<<<"i", "n", "j", "u", "r", "y">>, <<"f", "i", "r", "s", "t", " ", "a", "i", "d">>,
         <<"i", "n", "c", "i", "d", "e", "n", "t">>>>],
    [term |-> <<"o", "w", "i", "e", "s">>,
     synonyms |->
       <<<<"i", "n", "j", "u", "r", "y">>, <<"f", "i", "r", "s", "t", " ", "a", "i", "d">>,
         <<"i", "n", "c", "i", "d", "e", "n", "t">>>>],
    [term |-> <<"m", "e", "d", "i", "c", "i", "n", "e">>,
     synonyms |->
       <<<<"m", "e", "d", "i", "c", "a", "t", "i", "o", "n">>, <<"d", "r", "u", "g">>>>],
    [term |-> <<"t", "y", "l", "e", "n", "o", "l">>,
     synonyms |->
       <<<<"m", "e", "d", "i", "c", "a", "t", "i", "o", "n">>,
         <<"m", "e", "d", "i", "c", "i", "n", "e">>>>],
    [term |-> <<"m", "e", "l", "a", "t", "o", "n", "i", "n">>,
     synonyms |->
       <<<<"m", "e", "d", "i", "c", "a", "t", "i", "o", "n">>,
         <<"m", "e", "d", "i", "c", "i", "n", "e">>, <<"s", "l", "e", "e", "p">>>>],
    [term |-> <<"e", "p", "i", "p", "e", "n">>,
     synonyms |->
       <<<<"m", "e", "d", "i", "c", "a", "t", "i", "o", "n">>,
         <<"e", "m", "e", "r", "g", "e", "n", "c", "y">>, <<"a", "l", "l", "e", "r", "g", "y">>>>],
    [term |-> <<"s", "h", "o", "t">>,
     synonyms |->
       <<<<"i", "m", "m", "u", "n", "i", "z", "a", "t", "i", "o", "n">>,
         <<"v", "a", "c", "c", "i", "n", "e">>>>],
    [term |-> <<"s", "h", "o", "t", "s">>,
     synonyms |->
       <<<<"i", "m", "m", "u", "n", "i", "z", "a", "t", "i", "o", "n">>,
         <<"v", "a", "c", "c", "i", "n", "e">>>>],
    [term |-> <<"r", "a", "t", "i", "o">>,
     synonyms |->
       <<<<"s", "t", "a", "f", "f">>, <<"s", "u", "p", "e", "r", "v", "i", "s", "i", "o", "n">>,
         <<"c", "h", "i", "l", "d", "r", "e", "n", " ", "p", "e", "r">>>>],
    [term |-> <<"r", "a", "t", "i", "o", "s">>,
     synonyms |->
       <<<<"s", "t", "a", "f", "f">>, <<"s", "u", "p", "e", "r", "v", "i", "s", "i", "o", "n">>,
         <<"c", "h", "i", "l", "d", "r", "e", "n", " ", "p", "e", "r">>,
         <<"g", "r", "o", "u", "p", " ", "s", "i", "z", "e">>>>],
    [term |-> <<"t", "e", "a", "c", "h", "e", "r">>,
     synonyms |->
       <<<<"s", "t", "a", "f", "f">>, <<"p", "r", "o", "v", "i", "d", "e", "r">>,
         <<"r", "a", "t", "i", "o">>>>],
    [term |-> <<"w", "a", "t", "c", "h">>,
     synonyms |->
       <<<<"s", "u", "p", "e", "r", "v", "i", "s", "e">>, <<"r", "a", "t", "i", "o">>,
         <<"c", "a", "r", "e", " ", "f", "o", "r">>>>],
    [term |-> <<"v", "o", "l", "u", "n", "t", "e", "e", "r">>,
     synonyms |->
       <<<<"s", "t", "a", "f", "f">>, <<"s", "u", "p", "e", "r", "v", "i", "s", "i", "o", "n">>,
         <<"b", "a", "c", "k", "g", "r", "o", "u", "n", "d">>>>],
    [term |-> <<"w", "o", "r", "k", " ", "a", "t">>,
     synonyms |->
       <<<<"s", "t", "a", "f", "f">>, <<"q", "u", "a", "l", "i", "f">>, <<"a", "g", "e">>,
         <<"e", "m", "p", "l", "o", "y">>>>],
    [term |-> <<"f", "i", "n", "g", "e", "r", "p", "r", "i", "n", "t">>,
     synonyms |->
       <<<<"b", "a", "c", "k", "g", "r", "o", "u", "n", "d", " ", "c", "h", "e", "c", "k">>,
         <<"c", "r", "i", "m", "i", "n", "a", "l", " ", "h", "i", "s", "t", "o", "r", "y">>>>],
    [term |-> <<"f", "i", "n", "g", "e", "r", "p", "r", "i", "n", "t", "i", "n", "g">>,
     synonyms |->
       <<<<"b", "a", "c", "k", "g", "r", "o", "u", "n", "d", " ", "c", "h", "e", "c", "k">>,
         <<"c", "r", "i", "m", "i", "n", "a", "l", " ", "h", "i", "s", "t", "o", "r", "y">>>>],
    [term |-> <<"f", "i", "r", "e">>,
     synonyms |->
       <<<<"e", "m", "e", "r", "g", "e", "n", "c", "y">>,
         <<"e", "v", "a", "c", "u", "a", "t", "i", "o", "n">>, <<"d", "r", "i", "l", "l">>,
         <<"p", "r", "e", "p", "a", "r", "e", "d", "n", "e", "s", "s">>>>],
    [term |-> <<"w", "h", "a", "t", " ", "d", "o", " ", "i", " ", "d", "o">>,
     synonyms |->
       <<<<"p", "r", "o", "c", "e", "d", "u", "r", "e">>, <<"p", "l", "a", "n">>,
         <<"e", "m", "e", "r", "g", "e", "n", "c", "y">>,
         <<"p", "r", "e", "p", "a", "r", "e", "d", "n", "e", "s", "s">>>>],
    [term |-> <<"d", "u", "r", "i", "n", "g", " ", "a", " ", "f", "i", "r", "e">>,
     synonyms |->
       <<<<"e", "v", "a", "c", "u", "a", "t", "i", "o", "n">>, <<"d", "r", "i", "l", "l">>,
         <<"e", "m", "e", "r", "g", "e", "n", "c", "y", " ", "p", "r", "e", "p", "a", "r", "e", "d", "n", "e", "s", "s">>>>],
    [term |-> <<"e", "a", "r", "t", "h", "q", "u", "a", "k", "e">>,
     synonyms |->
       <<<<"d", "r", "i", "l", "l">>, <<"e", "m", "e", "r", "g", "e", "n", "c", "y">>,
         <<"d", "i", "s", "a", "s", "t", "e", "r">>,
         <<"p", "r", "e", "p", "a", "r", "e", "d", "n", "e", "s", "s">>>>],
    [term |-> <<"l", "o", "s", "t", " ", "c", "h", "i", "l", "d">>,
     synonyms |->
       <<<<"e", "m", "e", "r", "g", "e", "n", "c", "y">>, <<"m", "i", "s", "s", "i", "n", "g">>,
         <<"p", "r", "o", "c", "e", "d", "u", "r", "e">>>>],
    [term |-> <<"f", "e", "n", "c", "e">>,
     synonyms |->
       <<<<"b", "a", "r", "r", "i", "e", "r">>, <<"h", "e", "i", "g", "h", "t">>,
         <<"f", "o", "r", "t", "y", "-", "e", "i", "g", "h", "t", " ", "i", "n", "c", "h", "e", "s">>,
         <<"o", "u", "t", "d", "o", "o", "r">>, <<"e", "n", "c", "l", "o", "s", "e", "d">>>>],
    [term |-> <<"t", "a", "l", "l">>,
     synonyms |->
       <<<<"h", "e", "i", "g", "h", "t">>, <<"i", "n", "c", "h", "e", "s">>, <<"f", "e", "e", "t">>>>],
    [term |-> <<"s", "w", "i", "m", "m", "i", "n", "g">>,
     synonyms |->
       <<<<"w", "a", "t", "e", "r", " ", "a", "c", "t", "i", "v", "i", "t", "i", "e", "s">>,
         <<"p", "o", "o", "l">>>>],
    [term |-> <<"p", "o", "o", "l">>,
     synonyms |->
       <<<<"w", "a", "t", "e", "r", " ", "a", "c", "t", "i", "v", "i", "t", "i", "e", "s">>,
         <<"s", "w", "i", "m", "m", "i", "n", "g">>>>],
    [term |-> <<"w", "a", "r", "m">>,
     synonyms |->
       <<<<"t", "e", "m", "p", "e", "r", "a", "t", "u", "r", "e">>,
         <<"d", "e", "g", "r", "e", "e", "s">>, <<"f", "a", "h", "r", "e", "n", "h", "e", "i", "t">>>>],
    [term |-> <<"h", "o", "t">>,
     synonyms |->
       <<<<"t", "e", "m", "p", "e", "r", "a", "t", "u", "r", "e">>,
         <<"d", "e", "g", "r", "e", "e", "s">>>>],
    [term |-> <<"c", "o", "l", "d">>,
     synonyms |->
       <<<<"t", "e", "m", "p", "e", "r", "a", "t", "u", "r", "e">>,
         <<"d", "e", "g", "r", "e", "e", "s">>, <<"r", "e", "f", "r", "i", "g", "e", "r", "a", "t">>>>],
    [term |-> <<"t", "v">>,
     synonyms |->
       <<<<"t", "e", "l", "e", "v", "i", "s", "i", "o", "n">>, <<"s", "c", "r", "e", "e", "n">>,
         <<"v", "i", "d", "e", "o">>, <<"m", "e", "d", "i", "a">>>>],
    [term |-> <<"s", "c", "r", "e", "e", "n", " ", "t", "i", "m", "e">>,
     synonyms |->
       <<<<"t", "e", "l", "e", "v", "i", "s", "i", "o", "n">>, <<"v", "i", "d", "e", "o">>,
         <<"e", "l", "e", "c", "t", "r", "o", "n", "i", "c", " ", "m", "e", "d", "i", "a">>>>],
    [term |-> <<"t", "i", "m", "e", " ", "o", "u", "t">>,
     synonyms |->
       <<<<"d", "i", "s", "c", "i", "p", "l", "i", "n", "e">>,
         <<"g", "u", "i", "d", "a", "n", "c", "e">>, <<"b", "e", "h", "a", "v", "i", "o", "r">>>>],
    [term |-> <<"t", "i", "m", "e", "o", "u", "t">>,
     synonyms |->
       <<<<"d", "i", "s", "c", "i", "p", "l", "i", "n", "e">>,
         <<"g", "u", "i", "d", "a", "n", "c", "e">>, <<"b", "e", "h", "a", "v", "i", "o", "r">>>>],
    [term |-> <<"y", "e", "l", "l">>,
     synonyms |->
       <<<<"d", "i", "s", "c", "i", "p", "l", "i", "n", "e">>,
         <<"p", "r", "o", "h", "i", "b", "i", "t">>, <<"g", "u", "i", "d", "a", "n", "c", "e">>,
         <<"b", "e", "h", "a", "v", "i", "o", "r">>>>],
    [term |-> <<"h", "i", "t", "t", "i", "n", "g">>,
     synonyms |->
       <<<<"d", "i", "s", "c", "i", "p", "l", "i", "n", "e">>,
         <<"p", "r", "o", "h", "i", "b", "i", "t">>, <<"p", "h", "y", "s", "i", "c", "a", "l">>,
         <<"c", "o", "r", "p", "o", "r", "a", "l">>>>],
    [term |-> <<"h", "i", "t">>,
     synonyms |->
       <<<<"d", "i", "s", "c", "i", "p", "l", "i", "n", "e">>,
         <<"p", "r", "o", "h", "i", "b", "i", "t">>, <<"p", "h", "y", "s", "i", "c", "a", "l">>,
         <<"c", "o", "r", "p", "o", "r", "a", "l">>>>],
    [term |-> <<"b", "i", "t", "e">>,
     synonyms |->
       <<<<"i", "n", "c", "i", "d", "e", "n", "t">>, <<"i", "n", "j", "u", "r", "y">>,
         <<"b", "e", "h", "a", "v", "i", "o", "r">>>>],
    [term |-> <<"a", "g", "g", "r", "e", "s", "s", "i", "v", "e">>,
     synonyms |->
       <<<<"b", "e", "h", "a", "v", "i", "o", "r">>, <<"g", "u", "i", "d", "a", "n", "c", "e">>,
         <<"i", "n", "t", "e", "r", "v", "e", "n", "t", "i", "o", "n">>>>],
    [term |-> <<"k", "i", "d", "s">>,
     synonyms |->
       <<<<"c", "h", "i", "l", "d", "r", "e", "n">>, <<"c", "h", "i", "l", "d">>>>],
    [term |-> <<"b", "a", "b", "y">>,
     synonyms |->
       <<<<"i", "n", "f", "a", "n", "t">>, <<"c", "h", "i", "l", "d">>>>],
    [term |-> <<"b", "a", "b", "i", "e", "s">>,
     synonyms |->
       <<<<"i", "n", "f", "a", "n", "t">>, <<"c", "h", "i", "l", "d", "r", "e", "n">>>>],
    [term |-> <<"t", "o", "d", "d", "l", "e", "r">>,
     synonyms |->
       <<<<"c", "h", "i", "l", "d">>, <<"i", "n", "f", "a", "n", "t">>, <<"y", "o", "u", "n", "g">>>>],
    [term |-> <<"n", "e", "w", "b", "o", "r", "n">>,
     synonyms |->
       <<<<"i", "n", "f", "a", "n", "t">>, <<"c", "h", "i", "l", "d">>>>],
    [term |-> <<"s", "t", "r", "a", "n", "g", "e", "r">>,
     synonyms |->
       <<<<"r", "e", "l", "e", "a", "s", "e">>,
         <<"a", "u", "t", "h", "o", "r", "i", "z", "e", "d">>, <<"p", "a", "r", "e", "n", "t">>,
         <<"g", "u", "a", "r", "d", "i", "a", "n">>>>],
    [term |-> <<"p", "i", "c", "k", "u", "p">>,
     synonyms |->
       <<<<"r", "e", "l", "e", "a", "s", "e">>,
         <<"a", "u", "t", "h", "o", "r", "i", "z", "e", "d">>, <<"p", "a", "r", "e", "n", "t">>>>],
    [term |-> <<"p", "i", "c", "k", " ", "u", "p">>,
     synonyms |->
       <<<<"r", "e", "l", "e", "a", "s", "e">>,
         <<"a", "u", "t", "h", "o", "r", "i", "z", "e", "d">>, <<"p", "a", "r", "e", "n", "t">>>>],
    [term |-> <<"c", "o", "m", "p", "l", "a", "i", "n">>,
     synonyms |->
       <<<<"r", "e", "p", "o", "r", "t">>,
         <<"e", "n", "f", "o", "r", "c", "e", "m", "e", "n", "t">>,
         <<"v", "i", "o", "l", "a", "t", "i", "o", "n">>,
         <<"d", "e", "p", "a", "r", "t", "m", "e", "n", "t">>>>],
    [term |-> <<"c", "o", "m", "p", "l", "a", "i", "n", "t">>,
     synonyms |->
       <<<<"r", "e", "p", "o", "r", "t">>,
         <<"e", "n", "f", "o", "r", "c", "e", "m", "e", "n", "t">>,
         <<"v", "i", "o", "l", "a", "t", "i", "o", "n">>>>],
    [term |-> <<"t", "o", "u", "r", "i", "n", "g">>,
     synonyms |->
       <<<<"l", "i", "c", "e", "n", "s", "e">>, <<"v", "i", "s", "i", "t">>,
         <<"i", "n", "s", "p", "e", "c", "t">>>>],
    [term |-> <<"o", "v", "e", "r", "n", "i", "g", "h", "t">>,
     synonyms |->
       <<<<"s", "l", "e", "e", "p">>, <<"n", "i", "g", "h", "t">>, <<"c", "a", "r", "e">>>>],
    [term |-> <<"s", "c", "h", "e", "d", "u", "l", "e">>,
     synonyms |->
       <<<<"r", "o", "u", "t", "i", "n", "e">>, <<"d", "a", "i", "l", "y">>,
         <<"a", "c", "t", "i", "v", "i", "t", "y">>, <<"p", "r", "o", "g", "r", "a", "m">>>>],
    [term |-> <<"s", "a", "f", "e", "t", "y">>,
     synonyms |->
       <<<<"s", "a", "f", "e">>, <<"h", "a", "z", "a", "r", "d">>,
         <<"p", "r", "o", "t", "e", "c", "t">>>>],
    [term |-> <<"s", "a", "f", "t", "y">>,
     synonyms |->
       <<<<"s", "a", "f", "e">>, <<"h", "a", "z", "a", "r", "d">>,
         <<"p", "r", "o", "t", "e", "c", "t">>>>]>>

\* only the first synonym appended
AppendFirstSynonym(expanded, entry) == expanded \o <<" ">> \o entry.synonyms[1]

\* `expanded += " " + synonyms.join(" ")`
AppendSynonyms(expanded, entry) == expanded \o <<" ">> \o join(entry.synonyms)

\* the loop over the table from entry i on; the test looks at the text as
\* expanded so far (the bound variable holds the text of one iteration)
RECURSIVE ExpandFrom(_, _)
ExpandFrom(expanded, i) ==
  IF i > Len(SYNONYMS) THEN expanded
  ELSE CHOOSE final \in
         {ExpandFrom(next, i + 1) :
            next \in {IF includes(expanded, SYNONYMS[i].term)
                      THEN AppendSynonyms(expanded, SYNONYMS[i])
                      ELSE expanded}} : TRUE

expandQuery(text) == ExpandFrom(toLowerCase(text), 1)

(***************************************************************************)
(* Dense + BM25 search: intent detection.                                  *)
(***************************************************************************)
CATEGORY_KEYWORDS ==
  <<[category |-> "Food & Nutrition",
     keywords |->
       <<<<"f", "o", "o", "d">>, <<"e", "a", "t">>, <<"m", "e", "a", "l">>,
         <<"s", "n", "a", "c", "k">>, <<"b", "o", "t", "t", "l", "e">>,
         <<"f", "o", "r", "m", "u", "l", "a">>, <<"m", "i", "l", "k">>,
         <<"p", "u", "r", "e", "e">>, <<"f", "e", "e", "d">>, <<"l", "u", "n", "c", "h">>,
         <<"b", "r", "e", "a", "k", "f", "a", "s", "t">>, <<"d", "i", "n", "n", "e", "r">>,
         <<"r", "e", "f", "r", "i", "g", "e", "r", "a", "t">>, <<"c", "o", "o", "k">>>>],
    [category |-> "Health & Safety",
     keywords |->
       <<<<"s", "a", "f", "e">>, <<"s", "i", "c", "k">>, <<"i", "l", "l">>,
         <<"i", "n", "j", "u", "r">>, <<"e", "m", "e", "r", "g", "e", "n", "c", "y">>,
         <<"f", "i", "r", "s", "t", " ", "a", "i", "d">>, <<"m", "e", "d", "i", "c">>,
         <<"h", "e", "a", "l", "t", "h">>, <<"s", "a", "n", "i", "t">>,
         <<"c", "l", "e", "a", "n">>, <<"w", "a", "s", "h">>>>],
    [category |-> "Staffing",
     keywords |->
       <<<<"s", "t", "a", "f", "f">>, <<"r", "a", "t", "i", "o">>,
         <<"t", "e", "a", "c", "h", "e", "r">>, <<"p", "r", "o", "v", "i", "d", "e", "r">>,
         <<"t", "r", "a", "i", "n">>, <<"q", "u", "a", "l", "i", "f">>,
         <<"b", "a", "c", "k", "g", "r", "o", "u", "n", "d">>,
         <<"s", "u", "p", "e", "r", "v", "i", "s">>>>],
    [category |-> "Licensing",
     keywords |->
       <<<<"l", "i", "c", "e", "n", "s", "e">>, <<"c", "e", "r", "t", "i", "f">>,
         <<"r", "e", "q", "u", "i", "r", "e">>, <<"c", "o", "m", "p", "l", "y">>,
         <<"r", "e", "g", "u", "l", "a", "t", "i", "o", "n">>, <<"i", "n", "s", "p", "e", "c", "t">>>>]>>

TIME_KEYWORDS ==
  {<<"h", "o", "w", " ", "l", "o", "n", "g">>,
   <<"h", "o", "w", " ", "m", "a", "n", "y", " ", "h", "o", "u", "r", "s">>,
   <<"h", "o", "w", " ", "m", "a", "n", "y", " ", "m", "i", "n", "u", "t", "e", "s">>,
   <<"t", "i", "m", "e">>, <<"d", "u", "r", "a", "t", "i", "o", "n">>,
   <<"e", "x", "p", "i", "r", "e">>, <<"s", "a", "f", "e", " ", "f", "o", "r">>,
   <<"k", "e", "e", "p">>, <<"s", "t", "o", "r", "e">>, <<"l", "a", "s", "t">>}

TIME_CONTENT_KEYWORDS ==
  {<<"h", "o", "u", "r">>, <<"m", "i", "n", "u", "t", "e">>, <<"d", "a", "y">>,
   <<"w", "e", "e", "k">>, <<"m", "o", "n", "t", "h">>, <<"w", "i", "t", "h", "i", "n">>,
   <<"b", "e", "f", "o", "r", "e">>, <<"a", "f", "t", "e", "r">>, <<"e", "x", "p", "i", "r", "e">>}

NUMBER_KEYWORDS ==
  {<<"h", "o", "w", " ", "m", "a", "n", "y">>, <<"h", "o", "w", " ", "m", "u", "c", "h">>,
   <<"m", "i", "n", "i", "m", "u", "m">>, <<"m", "a", "x", "i", "m", "u", "m">>,
   <<"a", "t", " ", "l", "e", "a", "s", "t">>,
   <<"n", "o", " ", "m", "o", "r", "e", " ", "t", "h", "a", "n">>, <<"l", "i", "m", "i", "t">>}

\* `keywords.some(kw => lowerText.includes(kw))`
SomeIncluded(keywords, text) ==
  \E kw \in keywords : includes(toLowerCase(text), kw)

hasTimeIntent(text) == SomeIncluded(TIME_KEYWORDS, text)
hasNumberIntent(text) == SomeIncluded(NUMBER_KEYWORDS, text)
hasTimeContent(content) == SomeIncluded(TIME_CONTENT_KEYWORDS, content)

\* the categories pushed by getRelevantCategories
getRelevantCategories(text) ==
  {CATEGORY_KEYWORDS[i].category : i \in
     {n \in 1..Len(CATEGORY_KEYWORDS) :
        \E m \in 1..Len(CATEGORY_KEYWORDS[n].keywords) :
          includes(toLowerCase(text), CATEGORY_KEYWORDS[n].keywords[m])}}

\* `\w`
IsWordChar(c) == c \in LowerLetters \cup UpperLetters \cup Digits \cup {"_"}

\* `\b` in front of position p (1..Len + 1) of a text
IsWordBoundary(text, p) ==
  (p > 1 /\ IsWordChar(text[p - 1])) # (p <= Len(text) /\ IsWordChar(text[p]))

\* `/\b\d+\b/.test(content)`
hasNumberContent(content) ==
  \E i \in 1..Len(content) : \E j \in i..Len(content) :
    /\ \A n \in i..j : content[n] \in Digits
    /\ IsWordBoundary(content, i)
    /\ IsWordBoundary(content, j + 1)

(***************************************************************************)
(* Dense + BM25 search: the BM25 index.                                    *)
(***************************************************************************)
\* `.replace(/[^\w\s]/g, " ")`
replaceNonWord(text) ==
  [i \in 1..Len(text) |->
     IF IsWordChar(text[i]) \/ text[i] \in Whitespace THEN text[i] ELSE " "]

\* BM25.tokenize
tokenize(text) ==
  SelectSeq(split(replaceNonWord(toLowerCase(text))), LAMBDA token : Len(token) > 2)

\* `${c.sectionTitle} ${c.content}`
DocumentOf(chunk) == TitleText(chunk.sectionTitle) \o <<" ">> \o ContentText(chunk.chunkId)

\* `bm25 = new BM25(); bm25.index(chunks.map(...))`: numDocs, the Map
\* termFreqs (term -> frequency per document) and the Map docFreqs
\* (term -> number of documents with the term)
BuildIndex(cs) ==
  CHOOSE index \in
    {[indexed |-> TRUE,
      numDocs |-> Len(cs),
      termFreqs |->
        [term \in UNION {{docTokens[i][n] : n \in 1..Len(docTokens[i])} : i \in 1..Len(cs)} |->
           [i \in 1..Len(cs) |->
              Cardinality({n \in 1..Len(docTokens[i]) : docTokens[i][n] = term})]],
      docFreqs |->
        [term \in UNION {{docTokens[i][n] : n \in 1..Len(docTokens[i])} : i \in 1..Len(cs)} |->
           Cardinality({i \in 1..Len(cs) :
                          \E n \in 1..Len(docTokens[i]) : docTokens[i][n] = term})]] :
       docTokens \in {[i \in 1..Len(cs) |-> tokenize(DocumentOf(cs[i]))]}} : TRUE

\* `termFreqArray[i]`, for a term of the index
TermFreq(index, term, i) == index.termFreqs[term][i]

\* `this.docFreqs.get(term) || 0`
DocFreq(index, term) ==
  IF term \in DOMAIN index.docFreqs THEN index.docFreqs[term] ELSE 0

\* the argument of the logarithm without the added 1:
\* (numDocs - docFreq + 0.5) / (docFreq + 0.5)
IdfArgumentUnsmoothed(numDocs, docFreq) ==
  [num |-> 2 * numDocs - 2 * docFreq + 1, den |-> 2 * docFreq + 1]

\* the argument of the logarithm, as an exact fraction:
\* (numDocs - docFreq + 0.5) / (docFreq + 0.5) + 1 = (numDocs + 1) / (docFreq + 0.5)
IdfArgument(numDocs, docFreq) == [num |-> 2 * numDocs + 2, den |-> 2 * docFreq + 1]

\* the sign of idf = Math.log(argument)
IdfSign(numDocs, docFreq) ==
  LET argument == IdfArgument(numDocs, docFreq)
  IN IF argument.num > argument.den THEN 1
     ELSE IF argument.num = argument.den THEN 0 ELSE -1

\* the sign of what one query token adds to scores[i]: nothing when no
\* document has the term (`continue`) or document i has not (`continue`);
\* otherwise idf * tfNorm, where tfNorm is a quotient of positive numbers
ContributionSign(index, term, i) ==
  IF DocFreq(index, term) = 0 THEN 0
  ELSE IF TermFreq(index, term, i) = 0 THEN 0
       ELSE IdfSign(index.numDocs, DocFreq(index, term))

RECURSIVE SumOfSigns(_, _, _)
SumOfSigns(index, queryTokens, i) ==
  IF queryTokens = << >> THEN 0
  ELSE ContributionSign(index, Head(queryTokens), i)
         + SumOfSigns(index, Tail(queryTokens), i)

\* bm25.search(query): one score per document, the sum of the contributions
\* of the query tokens.  The contributions are logarithms; their signs are
\* computed and the size of a non-zero sum is taken from magnitude
bm25Search(index, text, magnitude) ==
  CHOOSE scores \in
    {[i \in 1..index.numDocs |->
        LET sum == SumOfSigns(index, queryTokens, i)
            size == magnitude[((i - 1) % Len(magnitude)) + 1]
        IN IF sum > 0 THEN size ELSE IF sum < 0 THEN 0 - size ELSE 0] :
       queryTokens \in {tokenize(text)}} : TRUE

(***************************************************************************)
(* Dense + BM25 search: exact fractions for the fused and boosted scores.  *)
(***************************************************************************)
RECURSIVE GCD(_, _)
GCD(a, b) == IF b = 0 THEN a ELSE GCD(b, a % b)

\* the fraction n / d in lowest terms
Fraction(n, d) == [num |-> n \div GCD(n, d), den |-> d \div GCD(n, d)]

FractionAdd(a, b) == Fraction(a.num * b.den + b.num * a.den, a.den * b.den)
FractionTimes(a, n, d) == Fraction(a.num * n, a.den * d)

\* a / b < c / d for positive b and d, by continued fractions, without a
\* product of the four numbers
RECURSIVE LessByQuotients(_, _, _, _)
LessByQuotients(a, b, c, d) ==
  IF a \div b # c \div d THEN a \div b < c \div d
  ELSE IF c % d = 0 THEN FALSE
       ELSE IF a % b = 0 THEN TRUE
            ELSE LessByQuotients(d, c % d, b, a % b)

FractionLess(a, b) == LessByQuotients(a.num, a.den, b.num, b.den)

(***************************************************************************)
(* Dense + BM25 search: fusion, boosts, ordering.  The scores behind the   *)
(* two rankings are whole numbers; a fused score is a sum of weight /      *)
(* (k + rank + 1), kept as an exact fraction, and so is its product with   *)
(* the boost factors.                                                      *)
(***************************************************************************)
RRF_K == 60
SEMANTIC_WEIGHT == [num |-> 3, den |-> 2]
BM25_WEIGHT == [num |-> 1, den |-> 1]
RERANK_CANDIDATES == 15

\* `fusedScores.set(index, (fusedScores.get(index) || 0) + amount)`: a new
\* key goes behind the keys already in the Map
FusedAdd(fused, index, amount) ==
  IF \E i \in 1..Len(fused) : fused[i].index = index
  THEN [i \in 1..Len(fused) |->
          IF fused[i].index = index
          THEN [index |-> index, score |-> FractionAdd(fused[i].score, amount)]
          ELSE fused[i]]
  ELSE Append(fused, [index |-> index, score |-> amount])

\* the inner loop of reciprocalRankFusion; rank counts from 0
RECURSIVE AddRanking(_, _, _, _)
AddRanking(fused, sorted, weight, rank) ==
  IF rank >= Len(sorted) THEN fused
  ELSE AddRanking(FusedAdd(fused, sorted[rank + 1].index,
                           Fraction(weight.num, weight.den * (RRF_K + rank + 1))),
                  sorted, weight, rank + 1)

\* reciprocalRankFusion(rankings, weights), the entries of the Map in
\* insertion order
RECURSIVE FuseFrom(_, _, _, _)
FuseFrom(fused, rankings, weights, r) ==
  IF r > Len(rankings) THEN fused
  ELSE FuseFrom(AddRanking(fused, SortByScore(rankings[r]), weights[r], 0),
                rankings, weights, r + 1)

reciprocalRankFusion(rankings, weights) == FuseFrom(<< >>, rankings, weights, 1)

\* the semantic loop of search: chunks without an embedding are skipped
SemanticScoresOf(cs, embKeys, queryEmbedding) ==
  LET kept == SelectSeq([i \in 1..Len(cs) |-> i], LAMBDA i : cs[i].chunkId \in embKeys)
  IN [n \in 1..Len(kept) |->
        [index |-> kept[n],
         score |-> PatternScore(queryEmbedding.dense, 1, kept[n])]]

\* the BM25 loop of search: documents with a positive score
Bm25ResultsOf(scores) ==
  LET kept == SelectSeq([i \in 1..Len(scores) |-> i], LAMBDA i : scores[i] > 0)
  IN [n \in 1..Len(kept) |-> [index |-> kept[n], score |-> scores[kept[n]]]]

\* only the first boost that applies is taken
BoostedScoreFirstOnly(fusedScore, timeBoost, numberBoost, categoryBoost) ==
  IF timeBoost THEN FractionTimes(fusedScore, 6, 5)
  ELSE IF numberBoost \/ categoryBoost THEN FractionTimes(fusedScore, 11, 10)
       ELSE fusedScore

\* `score *= 1.2`, `score *= 1.1`, `score *= 1.1` under their conditions
BoostedScore(fusedScore, timeBoost, numberBoost, categoryBoost) ==
  LET afterTime == IF timeBoost THEN FractionTimes(fusedScore, 6, 5) ELSE fusedScore
      afterNumber == IF numberBoost THEN FractionTimes(afterTime, 11, 10) ELSE afterTime
  IN IF categoryBoost THEN FractionTimes(afterNumber, 11, 10) ELSE afterNumber

\* `for (const [index, fusedScore] of fusedScores) { ... results.push(...) }`
BoostResults(fused, cs, text) ==
  [n \in 1..Len(fused) |->
     LET chunk == cs[fused[n].index]
     IN [chunk |-> chunk,
         score |-> BoostedScore(fused[n].score,
                     hasTimeIntent(text) /\ hasTimeContent(ContentText(chunk.chunkId)),
                     hasNumberIntent(text) /\ hasNumberContent(ContentText(chunk.chunkId)),
                     CategoryOf(chunk.chunkId) \in getRelevantCategories(text))]]

\* `results.sort((a, b) => b.score - a.score)` over fractions, stable
RECURSIVE InsertByFraction(_, _)
InsertByFraction(e, s) ==
  IF s = << >> THEN <<e>>
  ELSE IF ~FractionLess(Head(s).score, e.score)
       THEN <<Head(s)>> \o InsertByFraction(e, Tail(s))
       ELSE <<e>> \o s

RECURSIVE SortByFraction(_)
SortByFraction(s) ==
  IF s = << >> THEN << >>
  ELSE InsertByFraction(s[Len(s)], SortByFraction(SubSeq(s, 1, Len(s) - 1)))

\* `candidates.map((result, i) => ({chunk, score: logits[i]}))`, sorted
Reranked(candidates, logits) ==
  SortByFraction([i \in 1..Len(candidates) |->
                    [chunk |-> candidates[i].chunk,
                     score |-> [num |-> PatternScore(logits, 1, i), den |-> 1]]])

SearchResults(results) == [kind |-> "results", results |-> results]
SearchError(message) == [kind |-> "error", message |-> message]

(***************************************************************************)
(* Initial state: the module just loaded, nothing fetched.                 *)
(***************************************************************************)
Init ==
  /\ dataFiles \in DataSets
  /\ initPc = "idle"
  /\ isInitializing = FALSE
  /\ embedder = FALSE
  /\ qaPairs = << >>
  /\ qaEmbeddings = {}
  /\ chunks = << >>
  /\ chunkEmbeddings = {}
  /\ pc = "idle"
  /\ topK = 0
  /\ qaResults = << >>
  /\ contentResults = << >>
  /\ rrfScores = << >>
  /\ sortedResults = << >>
  /\ finalResults = << >>
  /\ response = NoResponse
  /\ vocabulary = << >>
  /\ query = << >>
  /\ correction = NoCorrection
  /\ embedCalls = << >>
  /\ lastFailure = NoFailure
  /\ SearchFresh
  /\ NotCalled
  /\ ClientFresh

(***************************************************************************)
(* Initialisation: initQASearch starts doInitQASearch, which loads the     *)
(* four data files one after the other and then the embedding pipeline.    *)
(***************************************************************************)
\* the guard tested on the loaded pipeline instead of the two module flags
AlreadyInitializingWhenLoaded == embedder

\* `isInitializing && initPromise`
AlreadyInitializing == isInitializing /\ initPromise # 0

\* a call of initQASearch: it returns the promise at hand, or starts a run of
\* doInitQASearch (up to its first await) and returns the promise of that
\* run.  The position of the run is one variable: a second run would start
\* over from the first fetch.
initQASearchBody ==
  /\ Len(initReturns) < MaxInitCalls
  /\ IF AlreadyInitializing
     THEN /\ initReturns' = Append(initReturns, [promise |-> initPromise, at |-> initPc])
          /\ UNCHANGED <<isInitializing, initPromise, initPc>>
     ELSE /\ isInitializing' = TRUE
          /\ initPromise' = initPromise + 1
          /\ initPc' = "fetchQAPairs"
          /\ initReturns' = Append(initReturns, [promise |-> initPromise', at |-> initPc])
  /\ UNCHANGED <<dataFiles, embedder, corpusVars, pc, topK, localVars, response,
                 vocabulary, queryVars, lastFailure, searchVars>>

\* initQASearch called from elsewhere than the hook
initQASearch == initQASearchBody /\ UNCHANGED clientVars

\* the environment calls initQASearch once
initQASearchInTurn == initPromise = 0 /\ initQASearch

FetchQAPairs ==
  /\ initPc = "fetchQAPairs"
  /\ qaPairs' = dataFiles.qaPairs
  /\ initPc' = "fetchQAEmbeddings"
  /\ UNCHANGED <<dataFiles, isInitializing, embedder, qaEmbeddings, chunks,
                 chunkEmbeddings, pc, topK, localVars, response,
                 vocabulary, queryVars, lastFailure,
                 searchVars, initCallVars, clientVars>>

FetchQAEmbeddings ==
  /\ initPc = "fetchQAEmbeddings"
  /\ qaEmbeddings' = dataFiles.qaEmbeddings
  /\ initPc' = "fetchChunks"
  /\ UNCHANGED <<dataFiles, isInitializing, embedder, qaPairs, chunks,
                 chunkEmbeddings, pc, topK, localVars, response,
                 vocabulary, queryVars, lastFailure,
                 searchVars, initCallVars, clientVars>>

FetchChunks ==
  /\ initPc = "fetchChunks"
  /\ chunks' = dataFiles.chunks
  /\ initPc' = "fetchChunkEmbeddings"
  /\ UNCHANGED <<dataFiles, isInitializing, embedder, qaPairs, qaEmbeddings,
                 chunkEmbeddings, pc, topK, localVars, response,
                 vocabulary, queryVars, lastFailure,
                 searchVars, initCallVars, clientVars>>

FetchChunkEmbeddings ==
  /\ initPc = "fetchChunkEmbeddings"
  /\ chunkEmbeddings' = dataFiles.chunkEmbeddings
  /\ initPc' = "pipeline"
  /\ UNCHANGED <<dataFiles, isInitializing, embedder, qaPairs, qaEmbeddings,
                 chunks, pc, topK, localVars, response,
                 vocabulary, queryVars, lastFailure,
                 searchVars, initCallVars, clientVars>>

\* `embedder = await pipeline(...)`, then buildVocabulary() without a
\* further suspension
PipelineLoaded ==
  /\ initPc = "pipeline"
  /\ embedder' = TRUE
  /\ vocabulary' = buildVocabulary(qaPairs, chunks)
  /\ initPc' = "done"
  /\ UNCHANGED <<dataFiles, isInitializing, corpusVars, pc, topK, localVars,
                 response, queryVars, lastFailure,
                 searchVars, initCallVars, clientVars>>

(***************************************************************************)
(* hybridSearch(query, topK).                                              *)
(***************************************************************************)
\* the corrected text whether or not anything was corrected
searchQueryAlwaysCorrected(text, corr) == corr.corrected

\* `hadCorrections ? corrected : query`
searchQueryOf(text, corr) == IF corr.hadCorrections THEN corr.corrected ELSE text

\* `hadCorrections ? corrected : null`
correctedQueryOf(corr) == IF corr.hadCorrections THEN corr.corrected ELSE Null

\* embedQuery hands the prefixed text to the pipeline
EmbedPrefix ==
  <<"t", "a", "s", "k", ":", " ", "s", "e", "a", "r", "c", "h", " ", "r", "e", "s", "u", "l", "t",
    " ", "|", " ", "q", "u", "e", "r", "y", ":", " ">>

prefixedText(text) == EmbedPrefix \o text

\* the call up to its suspension in embedQuery(searchQuery), at
\* `await embedder(prefixedText, ...)`; the initialisation check throws
\* before anything else is done
hybridSearchCall(text, limit) ==
  /\ pc = "idle"
  /\ topK' = limit
  /\ query' = text
  /\ IF ~embedder
     THEN /\ pc' = "done"
          /\ response' = [kind |-> "error", message |-> "Search not initialized"]
          /\ correction' = NoCorrection
          /\ embedCalls' = << >>
     ELSE /\ pc' = "embedding"
          /\ response' = NoResponse
          /\ correction' = correctQuery(text, vocabulary)
          /\ embedCalls' = <<prefixedText(searchQueryOf(text, correction'))>>
  /\ UNCHANGED <<dataFiles, initPc, isInitializing, embedder, corpusVars,
                 localVars, vocabulary, lastFailure,
                 searchVars, initCallVars, clientVars>>

\* the embedding arrives: everything from the scoring loops to the return
hybridSearchResume(queryEmbedding) ==
  /\ pc = "embedding"
  /\ qaResults' = SortByScore(ScoreQAPairs(qaPairs, qaEmbeddings, queryEmbedding))
  /\ contentResults' = SortByScore(ScoreChunks(chunks, chunkEmbeddings, queryEmbedding))
  /\ rrfScores' = BuildRRFScores(QAAsResults(qaResults') \o ContentAsResults(contentResults'),
                                 BestScore(qaResults'), BestScore(contentResults'), << >>)
  /\ sortedResults' = SortFused(rrfScores')
  /\ finalResults' = Dedup(sortedResults', {}, << >>, topK)
  /\ response' = MakeResponse(finalResults',
                              Classify(ScoreAt(finalResults', 1), ScoreAt(finalResults', 3),
                                       UniqueSections(finalResults')),
                              correctedQueryOf(correction))
  /\ pc' = "done"
  /\ lastFailure' = NoFailure
  /\ UNCHANGED <<dataFiles, initPc, isInitializing, embedder, corpusVars, topK,
                 vocabulary, queryVars,
                 searchVars, initCallVars, clientVars>>

\* a second attempt after a rejection, before giving up
hybridSearchEmbedFailsRetried(embedError) ==
  /\ pc = "embedding"
  /\ IF Len(embedCalls) < 2
     THEN /\ embedCalls' = Append(embedCalls, embedCalls[1])
          /\ UNCHANGED <<pc, response, lastFailure>>
     ELSE /\ pc' = "done"
          /\ response' = [kind |-> "error", message |-> embedError]
          /\ lastFailure' = [failed |-> TRUE, query |-> query]
          /\ UNCHANGED embedCalls
  /\ UNCHANGED <<dataFiles, initPc, isInitializing, embedder, corpusVars, topK,
                 localVars, vocabulary, query, correction,
                 searchVars, initCallVars, clientVars>>

\* the embedder rejects with embedError: neither embedQuery nor hybridSearch
\* catches it, so the call rejects with it
hybridSearchEmbedFails(embedError) ==
  /\ pc = "embedding"
  /\ pc' = "done"
  /\ response' = [kind |-> "error", message |-> embedError]
  /\ lastFailure' = [failed |-> TRUE, query |-> query]
  /\ UNCHANGED <<dataFiles, initPc, isInitializing, embedder, corpusVars, topK,
                 localVars, vocabulary, queryVars,
                 searchVars, initCallVars, clientVars>>

(***************************************************************************)
(* searchQA(query, topK) and searchContent(query, topK).                   *)
(***************************************************************************)
\* searchQA up to `await embedder(...)` in embedQuery(query)
searchQACall(text, limit) ==
  /\ pc = "idle"
  /\ topK' = limit
  /\ query' = text
  /\ correction' = NoCorrection
  /\ IF ~embedder
     THEN /\ pc' = "done"
          /\ response' = [kind |-> "error", message |-> "Q&A Search not initialized"]
          /\ embedCalls' = << >>
     ELSE /\ pc' = "embeddingQA"
          /\ response' = NoResponse
          /\ embedCalls' = <<prefixedText(text)>>
  /\ UNCHANGED <<dataFiles, initPc, isInitializing, embedder, corpusVars,
                 localVars, vocabulary, lastFailure, searchVars, initCallVars, clientVars>>

\* the embedding arrives: the loop over the Q&A pairs, the sort, the slice
searchQAResume(queryEmbedding) ==
  /\ pc = "embeddingQA"
  /\ qaResults' = SortByScore(ScoreQAPairs(qaPairs, qaEmbeddings, queryEmbedding))
  /\ response' = [kind |-> "results", results |-> Slice(qaResults', topK)]
  /\ pc' = "done"
  /\ UNCHANGED <<dataFiles, initPc, isInitializing, embedder, corpusVars, topK,
                 contentResults, rrfScores, sortedResults, finalResults, vocabulary,
                 queryVars, lastFailure, searchVars, initCallVars, clientVars>>

\* searchContent up to `await embedder(...)` in embedQuery(query)
searchContentCall(text, limit) ==
  /\ pc = "idle"
  /\ topK' = limit
  /\ query' = text
  /\ correction' = NoCorrection
  /\ IF ~embedder
     THEN /\ pc' = "done"
          /\ response' = [kind |-> "error", message |-> "Search not initialized"]
          /\ embedCalls' = << >>
     ELSE /\ pc' = "embeddingContent"
          /\ response' = NoResponse
          /\ embedCalls' = <<prefixedText(text)>>
  /\ UNCHANGED <<dataFiles, initPc, isInitializing, embedder, corpusVars,
                 localVars, vocabulary, lastFailure, searchVars, initCallVars, clientVars>>

\* the embedding arrives: the loop over the chunks, the sort, the slice
searchContentResume(queryEmbedding) ==
  /\ pc = "embeddingContent"
  /\ contentResults' = SortByScore(ScoreChunks(chunks, chunkEmbeddings, queryEmbedding))
  /\ response' = [kind |-> "results", results |-> Slice(contentResults', topK)]
  /\ pc' = "done"
  /\ UNCHANGED <<dataFiles, initPc, isInitializing, embedder, corpusVars, topK,
                 qaResults, rrfScores, sortedResults, finalResults, vocabulary,
                 queryVars, lastFailure, searchVars, initCallVars, clientVars>>

\* the embedder rejects: so does searchQA or searchContent
directSearchEmbedFails(embedError) ==
  /\ pc \in {"embeddingQA", "embeddingContent"}
  /\ pc' = "done"
  /\ response' = [kind |-> "error", message |-> embedError]
  /\ UNCHANGED <<dataFiles, initPc, isInitializing, embedder, corpusVars, topK,
                 localVars, vocabulary, queryVars, lastFailure, searchVars, initCallVars, clientVars>>

\* the caller has taken the outcome; the locals of the call are dropped
CallerTakesResponse ==
  /\ pc = "done"
  /\ pc' = "idle"
  /\ topK' = 0
  /\ qaResults' = << >>
  /\ contentResults' = << >>
  /\ rrfScores' = << >>
  /\ sortedResults' = << >>
  /\ finalResults' = << >>
  /\ response' = NoResponse
  /\ query' = << >>
  /\ correction' = NoCorrection
  /\ embedCalls' = << >>
  /\ UNCHANGED <<dataFiles, initPc, isInitializing, embedder, corpusVars,
                 vocabulary, lastFailure,
                 searchVars, initCallVars, clientVars>>

\* the query of the searches over the large data sets
PlainQueries ==
  {<<"f", "o", "r", "m", "u", "l", "a", " ", "s", "t", "o", "r", "a", "g", "e">>}

Next ==
  \/ initQASearchInTurn
  \/ FetchQAPairs
  \/ FetchQAEmbeddings
  \/ FetchChunks
  \/ FetchChunkEmbeddings
  \/ PipelineLoaded
  \/ \E text \in PlainQueries, limit \in TopKs : hybridSearchCall(text, limit)
  \/ \E queryEmbedding \in QueryEmbeddings : hybridSearchResume(queryEmbedding)
  \/ CallerTakesResponse

Spec == Init /\ [][Next]_vars

(***************************************************************************)
(* correctQuery called on an initialised module.                           *)
(***************************************************************************)
\* the state doInitQASearch leaves behind for a data set
Loaded(dataSet) ==
  /\ dataFiles = dataSet
  /\ initPc = "done"
  /\ isInitializing = TRUE
  /\ embedder = TRUE
  /\ qaPairs = dataSet.qaPairs
  /\ qaEmbeddings = dataSet.qaEmbeddings
  /\ chunks = dataSet.chunks
  /\ chunkEmbeddings = dataSet.chunkEmbeddings
  /\ vocabulary = buildVocabulary(dataSet.qaPairs, dataSet.chunks)
  /\ pc = "idle"
  /\ topK = 0
  /\ qaResults = << >>
  /\ contentResults = << >>
  /\ rrfScores = << >>
  /\ sortedResults = << >>
  /\ finalResults = << >>
  /\ response = NoResponse
  /\ query = << >>
  /\ correction = NoCorrection
  /\ embedCalls = << >>
  /\ lastFailure = NoFailure
  /\ SearchFresh
  /\ CalledOnce
  /\ ClientFresh

InitCorrect == \E dataSet \in TextDataSets : Loaded(dataSet)

\* the characters a single edit puts in: a letter, a capital, a digit
EditChars == {"x", "E", "3"}

Deletions(w) == {SubSeq(w, 1, i - 1) \o SubSeq(w, i + 1, Len(w)) : i \in 1..Len(w)}
Insertions(w) ==
  {SubSeq(w, 1, i) \o <<c>> \o SubSeq(w, i + 1, Len(w)) : i \in 0..Len(w), c \in EditChars}
Substitutions(w) ==
  UNION {{[w EXCEPT ![i] = c] : c \in EditChars \ {w[i]}} : i \in 1..Len(w)}

\* the strings one single-character edit away from w
SingleEdits(w) == Deletions(w) \cup Insertions(w) \cup Substitutions(w)

\* the words whose single edits are tried
EditedWords ==
  {<<"c", "h", "i", "l", "d", "r", "e", "n">>,
   <<"t", "e", "m", "p", "e", "r", "a", "t", "u", "r", "e">>}

CorrectQueries ==
  {<<"S", "t", "u", "f", "f", " ", "f", "o", "r", " ", "M", "I", "L", "K">>,
   <<"t", "e", "m", "p", "u", "r", "a", "t", "u", "r", "e", " ", "f", "o", "r", " ", "m", "i", "l", "k">>,
   <<"d", "i", "a", "p", "p", "e", "r", " ", "c", "h", "a", "n", "g", "i", "n", "g", " ", "r", "u", "l", "e", "s">>,
   <<"m", "i", "l", "c">>,
   <<"r", "e", "a", "c", "h">>,
   <<"s", "t", "o", "f", "f">>,
   <<"t", "e", "m", "p", "e", "r", "a", "t", "u", "r", "3", " ", "a", "1">>,
   <<" ", "m", "i", "l", "k", " ">>,
   <<>>,
   <<"T", "E", "M", "P", "E", "R", "A", "T", "U", "R", "E">>,
   <<"t", "e", "m", "p", "e", "r", "a", "t", "o", "o", "r", "e">>,
   <<"c", "h", "i", "l", "d", "r", "e", "n", "s">>,
   <<"h", "a", "n", "d", "w", "a", "h", "s", "i", "n", "g", " ", "r", "e", "q", "u", "i", "r", "e", "m", "e", "n", "t", "s">>,
   <<"T", "e", "m", "p", "u", "r", "a", "t", "u", "r", "e">>}
  \cup UNION {SingleEdits(w) : w \in EditedWords}

\* correctQuery(text), a synchronous call
callCorrectQuery(text) ==
  /\ pc = "idle"
  /\ correction = NoCorrection
  /\ query' = text
  /\ correction' = correctQuery(text, vocabulary)
  /\ UNCHANGED <<dataFiles, initPc, isInitializing, embedder, corpusVars, pc, topK,
                 localVars, response, vocabulary, embedCalls, lastFailure,
                 searchVars, initCallVars, clientVars>>

\* the caller has taken the returned pair
CallerTakesCorrection ==
  /\ pc = "idle"
  /\ correction # NoCorrection
  /\ query' = << >>
  /\ correction' = NoCorrection
  /\ UNCHANGED <<dataFiles, initPc, isInitializing, embedder, corpusVars, pc, topK,
                 localVars, response, vocabulary, embedCalls, lastFailure,
                 searchVars, initCallVars, clientVars>>

NextCorrect ==
  \/ \E text \in CorrectQueries : callCorrectQuery(text)
  \/ CallerTakesCorrection

SpecCorrect == InitCorrect /\ [][NextCorrect]_vars

(***************************************************************************)
(* hybridSearch over query texts, on the small data sets, with embedder    *)
(* failures.                                                               *)
(***************************************************************************)
InitQuery ==
  /\ dataFiles \in TextDataSets
  /\ initPc = "idle"
  /\ isInitializing = FALSE
  /\ embedder = FALSE
  /\ qaPairs = << >>
  /\ qaEmbeddings = {}
  /\ chunks = << >>
  /\ chunkEmbeddings = {}
  /\ pc = "idle"
  /\ topK = 0
  /\ qaResults = << >>
  /\ contentResults = << >>
  /\ rrfScores = << >>
  /\ sortedResults = << >>
  /\ finalResults = << >>
  /\ response = NoResponse
  /\ vocabulary = << >>
  /\ query = << >>
  /\ correction = NoCorrection
  /\ embedCalls = << >>
  /\ lastFailure = NoFailure
  /\ SearchFresh
  /\ NotCalled
  /\ ClientFresh

\* a query of known words in mixed case and two misspelt queries
Queries ==
  {<<"F", "o", "r", "m", "u", "l", "a", " ", "S", "t", "o", "r", "a", "g", "e">>,
   <<"t", "e", "m", "p", "u", "r", "a", "t", "u", "r", "e", " ", "f", "o", "r", " ", "m", "i", "l", "k">>,
   <<"f", "o", "m", "u", "l", "a", " ", "s", "t", "o", "r", "a", "g", "e">>}

\* embeddings of a covered and of a not covered query
TextQueryEmbeddings ==
  {e \in QueryEmbeddings :
     /\ e.decay = 0
     /\ e.qa \in {<<54, 54>>, <<75, 58>>}
     /\ e.content \in {<<54, 54>>, <<58, 54>>}}

\* what the embedder rejects with
EmbedErrors == {"out of memory", "session closed"}

NextQuery ==
  \/ initQASearchInTurn
  \/ FetchQAPairs
  \/ FetchQAEmbeddings
  \/ FetchChunks
  \/ FetchChunkEmbeddings
  \/ PipelineLoaded
  \/ \E text \in Queries : hybridSearchCall(text, DEFAULT_TOPK)
  \/ \E queryEmbedding \in TextQueryEmbeddings : hybridSearchResume(queryEmbedding)
  \/ \E embedError \in EmbedErrors : hybridSearchEmbedFails(embedError)
  \/ CallerTakesResponse

SpecQuery == InitQuery /\ [][NextQuery]_vars

(***************************************************************************)
(* expandQuery called on its own.                                          *)
(***************************************************************************)
ExpandWords ==
  {<<"p", "u", "r", "e", "e">>, <<"M", "i", "l", "k">>, <<"n", "a", "p">>,
   <<"b", "l", "a", "n", "k", "e", "t">>, <<"s", "w", "i", "m", "m", "i", "n", "g">>,
   <<"P", "O", "O", "L">>, <<"k", "i", "d", "s">>, <<"f", "e", "v", "e", "r">>,
   <<"t", "e", "a", "c", "h", "e", "r">>, <<"H", "i", "t", "t", "i", "n", "g">>,
   <<"b", "a", "b", "y", " ", "f", "o", "o", "d">>, <<"x", "y", "z">>}
ExpandHeads ==
  {<<"p", "u", "r", "e", "e">>, <<"M", "i", "l", "k">>, <<"n", "a", "p", " ", "t", "i", "m", "e">>,
   <<"b", "l", "a", "n", "k", "e", "t">>, <<"S", "w", "i", "m", "m", "i", "n", "g">>,
   <<"m", "y", " ", "k", "i", "d", "s">>}
ExpandTails ==
  {<<"s", "t", "o", "r", "a", "g", "e">>, <<"a", "n", "d", " ", "f", "e", "v", "e", "r">>,
   <<"f", "o", "r", " ", "t", "h", "e", " ", "t", "e", "a", "c", "h", "e", "r">>,
   <<"P", "O", "O", "L">>, <<"m", "e", "l", "a", "t", "o", "n", "i", "n">>, <<"x", "y", "z">>}

ExpandQueries == ExpandWords \cup {a \o <<" ">> \o b : a \in ExpandHeads, b \in ExpandTails}

\* expandQuery(text), a synchronous call
callExpandQuery(text) ==
  /\ sPc = "idle"
  /\ sQuery = << >>
  /\ sQuery' = text
  /\ expandedQuery' = expandQuery(text)
  /\ UNCHANGED <<qaVars, sInitPc, sInitRuns, searchModule, sPc, sTopK, semanticScores,
                 bm25Scores, bm25Results, fusedScores, sResults, sResponse>>

\* the caller has taken the expanded text
CallerTakesExpansion ==
  /\ sPc = "idle"
  /\ sQuery # << >>
  /\ sQuery' = << >>
  /\ expandedQuery' = << >>
  /\ UNCHANGED <<qaVars, sInitPc, sInitRuns, searchModule, sPc, sTopK, semanticScores,
                 bm25Scores, bm25Results, fusedScores, sResults, sResponse>>

NextExpand ==
  \/ \E text \in ExpandQueries : callExpandQuery(text)
  \/ CallerTakesExpansion

SpecExpand == InitQuery /\ [][NextExpand]_vars

(***************************************************************************)
(* Dense + BM25 search: initSearch and search.  initSearch has no guard    *)
(* against a second call: up to MaxInitRuns runs of it are in progress at  *)
(* a time, each at its own position sInitPc[run].                          *)
(***************************************************************************)
SearchDataSets ==
  {[qaPairs |-> << >>,
    qaEmbeddings |-> {},
    chunks |-> MakeChunks(l, nc),
    chunkEmbeddings |-> MakeChunkEmbeddings(l, nc)] :
      l \in {"cyclic", "orphans"}, nc \in {0, MaxSearchChunks}}

InitDense ==
  /\ dataFiles \in SearchDataSets
  /\ initPc = "idle"
  /\ isInitializing = FALSE
  /\ embedder = FALSE
  /\ qaPairs = << >>
  /\ qaEmbeddings = {}
  /\ chunks = << >>
  /\ chunkEmbeddings = {}
  /\ pc = "idle"
  /\ topK = 0
  /\ qaResults = << >>
  /\ contentResults = << >>
  /\ rrfScores = << >>
  /\ sortedResults = << >>
  /\ finalResults = << >>
  /\ response = NoResponse
  /\ vocabulary = << >>
  /\ query = << >>
  /\ correction = NoCorrection
  /\ embedCalls = << >>
  /\ lastFailure = NoFailure
  /\ SearchFresh
  /\ NotCalled
  /\ ClientFresh

\* a call of initSearch, up to its first await
initSearch ==
  /\ sInitRuns < MaxInitRuns
  /\ sInitPc' = [sInitPc EXCEPT ![sInitRuns + 1] = "fetchChunks"]
  /\ sInitRuns' = sInitRuns + 1
  /\ UNCHANGED <<qaVars, searchModule, sPc, searchLocals, sResponse>>

\* a caller that calls initSearch again only once the runs before are over
initSearchInTurn ==
  /\ \A run \in 1..sInitRuns : sInitPc[run] = "done"
  /\ initSearch

\* `chunks = await chunksRes.json()`
initSearchChunks(run) ==
  /\ sInitPc[run] = "fetchChunks"
  /\ sChunks' = dataFiles.chunks
  /\ sInitPc' = [sInitPc EXCEPT ![run] = "fetchEmbeddings"]
  /\ UNCHANGED <<qaVars, sInitRuns, extractor, rerankerTokenizer, rerankerModel, embeddings,
                 bm25, sPc, searchLocals, sResponse>>

\* the embeddings have arrived: the Map and the BM25 index are built
initSearchEmbeddings(run) ==
  /\ sInitPc[run] = "fetchEmbeddings"
  /\ embeddings' = dataFiles.chunkEmbeddings
  /\ bm25' = BuildIndex(sChunks)
  /\ sInitPc' = [sInitPc EXCEPT ![run] = "device"]
  /\ UNCHANGED <<qaVars, sInitRuns, extractor, rerankerTokenizer, rerankerModel, sChunks,
                 sPc, searchLocals, sResponse>>

\* `const device = await getDevice()`
initSearchDevice(run) ==
  /\ sInitPc[run] = "device"
  /\ sInitPc' = [sInitPc EXCEPT ![run] = "pipeline"]
  /\ UNCHANGED <<qaVars, sInitRuns, searchModule, sPc, searchLocals, sResponse>>

\* `extractor = await pipeline(...)`
initSearchExtractor(run) ==
  /\ sInitPc[run] = "pipeline"
  /\ extractor' = TRUE
  /\ sInitPc' = [sInitPc EXCEPT ![run] = "tokenizer"]
  /\ UNCHANGED <<qaVars, sInitRuns, rerankerTokenizer, rerankerModel, sChunks, embeddings,
                 bm25, sPc, searchLocals, sResponse>>

\* `rerankerTokenizer = await AutoTokenizer.from_pretrained(...)`
initSearchTokenizer(run) ==
  /\ sInitPc[run] = "tokenizer"
  /\ rerankerTokenizer' = TRUE
  /\ sInitPc' = [sInitPc EXCEPT ![run] = "model"]
  /\ UNCHANGED <<qaVars, sInitRuns, extractor, rerankerModel, sChunks, embeddings, bm25,
                 sPc, searchLocals, sResponse>>

\* `rerankerModel = await AutoModelForSequenceClassification.from_pretrained(...)`
initSearchModel(run) ==
  /\ sInitPc[run] = "model"
  /\ rerankerModel' = TRUE
  /\ sInitPc' = [sInitPc EXCEPT ![run] = "done"]
  /\ UNCHANGED <<qaVars, sInitRuns, extractor, rerankerTokenizer, sChunks, embeddings, bm25,
                 sPc, searchLocals, sResponse>>

\* a reranker download fails: caught, initSearch resolves
initSearchRerankerFails(run) ==
  /\ sInitPc[run] \in {"tokenizer", "model"}
  /\ sInitPc' = [sInitPc EXCEPT ![run] = "done"]
  /\ UNCHANGED <<qaVars, sInitRuns, searchModule, sPc, searchLocals, sResponse>>

\* a fetch or the pipeline download fails: initSearch rejects
initSearchFails(run) ==
  /\ sInitPc[run] \in {"fetchChunks", "fetchEmbeddings", "pipeline"}
  /\ sInitPc' = [sInitPc EXCEPT ![run] = "done"]
  /\ UNCHANGED <<qaVars, sInitRuns, searchModule, sPc, searchLocals, sResponse>>

\* the raw queries of the calls
SearchQueries ==
  {<<"H", "o", "w", " ", "l", "o", "n", "g", " ", "c", "a", "n", " ", "f", "o", "r", "m", "u", "l",
     "a", " ", "s", "i", "t", " ", "o", "u", "t", "?">>,
   <<"h", "o", "w", " ", "m", "a", "n", "y", " ", "k", "i", "d", "s", " ", "p", "e", "r", " ", "t",
     "e", "a", "c", "h", "e", "r">>,
   <<"A", "t", " ", "l", "e", "a", "s", "t", " ", "h", "o", "w", " ", "m", "a", "n", "y", " ", "h",
     "o", "u", "r", "s", " ", "t", "o", " ", "s", "t", "o", "r", "e", " ", "m", "i", "l", "k">>,
   <<"d", "i", "a", "p", "e", "r", " ", "r", "u", "l", "e", "s">>,
   <<"M", "i", "n", "i", "m", "u", "m", " ", "s", "h", "e", "l", "f", " ", "s", "e", "c", "t", "i",
     "o", "n">>}

SearchTopKs == {2, DEFAULT_TOPK}

\* what the models give back for a query: the similarities to the stored
\* embeddings, the sizes of the positive BM25 scores, the logits of the
\* cross-encoder, and whether its tokenizer accepts the pairs
DenseVals == {<<60, 80>>, <<80, 60>>, <<70, 70>>}
LexicalVals == {<<1, 2>>, <<2, 1>>}
LogitVals == {<<1, 5>>, <<5, 1>>}
SearchEmbeddings == [dense : DenseVals, lexical : LexicalVals, tokenizes : BOOLEAN]

\* search without its initialisation check
searchUnchecked(text, limit) ==
  /\ sPc = "idle"
  /\ sResponse = NoResponse
  /\ sQuery' = text
  /\ sTopK' = limit
  /\ expandedQuery' = expandQuery(text)
  /\ sPc' = "embedding"
  /\ UNCHANGED <<qaVars, sInitPc, sInitRuns, searchModule, semanticScores, bm25Scores,
                 bm25Results, fusedScores, sResults, sResponse>>

\* search(query, topK) up to `await extractor(expandedQuery, ...)`
search(text, limit) ==
  /\ sPc = "idle"
  /\ sResponse = NoResponse
  /\ sQuery' = text
  /\ sTopK' = limit
  /\ IF ~extractor \/ ~bm25.indexed
     THEN /\ sResponse' = SearchError("Search not initialized")
          /\ sPc' = "done"
          /\ expandedQuery' = << >>
     ELSE /\ expandedQuery' = expandQuery(text)
          /\ sPc' = "embedding"
          /\ UNCHANGED sResponse
  /\ UNCHANGED <<qaVars, sInitPc, sInitRuns, searchModule, semanticScores, bm25Scores,
                 bm25Results, fusedScores, sResults>>

\* the query embedding has arrived: both rankings, the fusion, the boosts,
\* the sort, and either the slice or the call of the cross-encoder
searchEmbedded(queryEmbedding) ==
  /\ sPc = "embedding"
  /\ semanticScores' = SemanticScoresOf(sChunks, embeddings, queryEmbedding)
  /\ bm25Scores' = bm25Search(bm25, expandedQuery, queryEmbedding.lexical)
  /\ bm25Results' = Bm25ResultsOf(bm25Scores')
  /\ fusedScores' = reciprocalRankFusion(<<semanticScores', bm25Results'>>,
                                         <<SEMANTIC_WEIGHT, BM25_WEIGHT>>)
  /\ sResults' = SortByFraction(BoostResults(fusedScores', sChunks, sQuery))
  /\ IF rerankerTokenizer /\ rerankerModel /\ Len(sResults') > 0 /\ queryEmbedding.tokenizes
     THEN /\ sPc' = "reranking"
          /\ UNCHANGED sResponse
     ELSE /\ sPc' = "done"
          /\ sResponse' = SearchResults(Slice(sResults', sTopK))
  /\ UNCHANGED <<qaVars, sInitPc, sInitRuns, searchModule, sQuery, sTopK, expandedQuery>>

\* `await extractor(...)` rejects: so does search
searchEmbedFails ==
  /\ sPc = "embedding"
  /\ sPc' = "done"
  /\ sResponse' = SearchError("embedding failed")
  /\ UNCHANGED <<qaVars, sInitPc, sInitRuns, searchModule, searchLocals>>

\* the logits have arrived
searchReranked(logits) ==
  /\ sPc = "reranking"
  /\ sPc' = "done"
  /\ sResponse' = SearchResults(Slice(Reranked(Slice(sResults, RERANK_CANDIDATES), logits),
                                      sTopK))
  /\ UNCHANGED <<qaVars, sInitPc, sInitRuns, searchModule, searchLocals>>

\* `await rerankerModel(inputs)` rejects: caught, the hybrid order is used
searchRerankFails ==
  /\ sPc = "reranking"
  /\ sPc' = "done"
  /\ sResponse' = SearchResults(Slice(sResults, sTopK))
  /\ UNCHANGED <<qaVars, sInitPc, sInitRuns, searchModule, searchLocals>>

\* the caller has taken the outcome of search
searchTaken ==
  /\ sPc = "done"
  /\ sPc' = "idle"
  /\ sQuery' = << >>
  /\ sTopK' = 0
  /\ expandedQuery' = << >>
  /\ semanticScores' = << >>
  /\ bm25Scores' = << >>
  /\ bm25Results' = << >>
  /\ fusedScores' = << >>
  /\ sResults' = << >>
  /\ sResponse' = NoResponse
  /\ UNCHANGED <<qaVars, sInitPc, sInitRuns, searchModule>>

NextDense ==
  \/ initSearchInTurn
  \/ \E run \in 1..MaxInitRuns : initSearchChunks(run)
  \/ \E run \in 1..MaxInitRuns : initSearchEmbeddings(run)
  \/ \E run \in 1..MaxInitRuns : initSearchDevice(run)
  \/ \E run \in 1..MaxInitRuns : initSearchExtractor(run)
  \/ \E run \in 1..MaxInitRuns : initSearchTokenizer(run)
  \/ \E run \in 1..MaxInitRuns : initSearchModel(run)
  \/ \E run \in 1..MaxInitRuns : initSearchRerankerFails(run)
  \/ \E run \in 1..MaxInitRuns : initSearchFails(run)
  \/ \E text \in SearchQueries, limit \in SearchTopKs : search(text, limit)
  \/ \E queryEmbedding \in SearchEmbeddings : searchEmbedded(queryEmbedding)
  \/ searchEmbedFails
  \/ \E logits \in LogitVals : searchReranked(logits)
  \/ searchRerankFails
  \/ searchTaken

SpecDense == InitDense /\ [][NextDense]_vars

(***************************************************************************)
(* Both modules together: the two initialisations and the four search      *)
(* entry points in any order, on one small corpus and one query; a call    *)
(* into one module starts when no call into the other is suspended.        *)
(***************************************************************************)
BothDataSets ==
  {[qaPairs |-> MakeQAPairs(l, 3),
    qaEmbeddings |-> MakeQAEmbeddings(l, 3),
    chunks |-> MakeChunks(l, 2),
    chunkEmbeddings |-> MakeChunkEmbeddings(l, 2)] : l \in {"cyclic", "orphans"}}

InitBoth ==
  /\ dataFiles \in BothDataSets
  /\ initPc = "idle"
  /\ isInitializing = FALSE
  /\ embedder = FALSE
  /\ qaPairs = << >>
  /\ qaEmbeddings = {}
  /\ chunks = << >>
  /\ chunkEmbeddings = {}
  /\ pc = "idle"
  /\ topK = 0
  /\ qaResults = << >>
  /\ contentResults = << >>
  /\ rrfScores = << >>
  /\ sortedResults = << >>
  /\ finalResults = << >>
  /\ response = NoResponse
  /\ vocabulary = << >>
  /\ query = << >>
  /\ correction = NoCorrection
  /\ embedCalls = << >>
  /\ lastFailure = NoFailure
  /\ SearchFresh
  /\ NotCalled
  /\ ClientFresh

BothQueries == {<<"s", "t", "o", "r", "e", " ", "m", "i", "l", "k">>}
BothQueryEmbeddings == {[qa |-> <<75, 58>>, content |-> <<58, 54>>, decay |-> 0]}
BothSearchEmbeddings == {[dense |-> <<60, 80>>, lexical |-> <<1, 2>>, tokenizes |-> TRUE]}
BothLogits == {<<1, 5>>}
BothEmbedErrors == {"session closed"}

NextBoth ==
  \/ initQASearchInTurn
  \/ FetchQAPairs
  \/ FetchQAEmbeddings
  \/ FetchChunks
  \/ FetchChunkEmbeddings
  \/ PipelineLoaded
  \/ initSearch
  \/ \E run \in 1..MaxInitRuns : initSearchChunks(run)
  \/ \E run \in 1..MaxInitRuns : initSearchEmbeddings(run)
  \/ \E run \in 1..MaxInitRuns : initSearchDevice(run)
  \/ \E run \in 1..MaxInitRuns : initSearchExtractor(run)
  \/ \E run \in 1..MaxInitRuns : initSearchTokenizer(run)
  \/ \E run \in 1..MaxInitRuns : initSearchModel(run)
  \/ \E run \in 1..MaxInitRuns : initSearchRerankerFails(run)
  \/ \E run \in 1..MaxInitRuns : initSearchFails(run)
  \/ \E text \in BothQueries : sPc \in {"idle", "done"} /\ searchQACall(text, DEFAULT_TOPK)
  \/ \E text \in BothQueries : sPc \in {"idle", "done"} /\ searchContentCall(text, DEFAULT_TOPK)
  \/ \E text \in BothQueries : sPc \in {"idle", "done"} /\ hybridSearchCall(text, DEFAULT_TOPK)
  \/ \E text \in BothQueries : pc \in {"idle", "done"} /\ search(text, DEFAULT_TOPK)
  \/ \E queryEmbedding \in BothQueryEmbeddings : searchQAResume(queryEmbedding)
  \/ \E queryEmbedding \in BothQueryEmbeddings : searchContentResume(queryEmbedding)
  \/ \E queryEmbedding \in BothQueryEmbeddings : hybridSearchResume(queryEmbedding)
  \/ \E embedError \in BothEmbedErrors : directSearchEmbedFails(embedError)
  \/ \E embedError \in BothEmbedErrors : hybridSearchEmbedFails(embedError)
  \/ \E queryEmbedding \in BothSearchEmbeddings : searchEmbedded(queryEmbedding)
  \/ searchEmbedFails
  \/ \E logits \in BothLogits : searchReranked(logits)
  \/ searchRerankFails
  \/ CallerTakesResponse
  \/ searchTaken

SpecBoth == InitBoth /\ [][NextBoth]_vars

(***************************************************************************)
(* Properties.                                                             *)
(***************************************************************************)
(* The test harness testHybridSearch.  The script loads the data files     *)
(* itself and hands the corpus to the function; nothing else runs in its   *)
(* process, so the function is one step from the arrival of the embedding. *)
(***************************************************************************)
\* the list fusedResults before the sort: every Q&A candidate of
\* qaResults.slice(0, 10), then every chunk of contentResults.slice(0, 20),
\* each with weight / (k + rank + 1); no candidate is merged with another
HarnessFused(qaRes, contentRes) ==
  LET all == QAAsResults(qaRes) \o ContentAsResults(contentRes)
  IN [i \in 1..Len(all) |->
        [result |-> all[i],
         rrfScore |-> RRFScore(Weight(all[i], BestScore(qaRes), BestScore(contentRes)),
                               all[i].originalRank)]]

\* fusedResults seen as a result list: title and similarity of each entry
HarnessEntries(fused) ==
  [i \in 1..Len(fused) |-> [chunk |-> fused[i].result.chunk, score |-> fused[i].result.score]]

\* the confidence decision of the harness
HarnessClassify(topScore, thirdScore, uniqueSections) ==
  IF topScore >= CONFIDENCE_HIGH_THRESHOLD
  THEN [confidence |-> "HIGH", topicCovered |-> TRUE]
  ELSE IF topScore >= CONFIDENCE_MEDIUM_THRESHOLD
  THEN [confidence |-> "MEDIUM", topicCovered |-> TRUE]
  ELSE IF topScore >= CONFIDENCE_LOW_THRESHOLD
  THEN IF uniqueSections >= 3 /\ DoubleGapBelow(topScore, thirdScore)
       THEN [confidence |-> "NONE", topicCovered |-> FALSE]
       ELSE [confidence |-> "LOW", topicCovered |-> TRUE]
  ELSE [confidence |-> "NONE", topicCovered |-> FALSE]

\* what a run of the harness prints: the sections shown and the verdict,
\* which is taken from the first three entries of the sorted fusedResults
HarnessOutcome(qaRes, contentRes, limit) ==
  CHOOSE outcome \in
    {[kind |-> "ran",
      qaResults |-> qaRes,
      contentResults |-> contentRes,
      topK |-> limit,
      shown |-> Dedup(fused, {}, << >>, limit),
      verdict |-> HarnessClassify(ScoreAt(HarnessEntries(fused), 1),
                                  ScoreAt(HarnessEntries(fused), 3),
                                  UniqueSections(HarnessEntries(fused)))] :
       fused \in {SortFused(HarnessFused(qaRes, contentRes))}} : TRUE

\* testHybridSearch(query, qaPairs, qaEmbeddings, chunks, chunkEmbeddings, topK)
\* on the loaded corpus, from the arrival of the query embedding
testHybridSearch(queryEmbedding, limit) ==
  /\ initPc = "done"
  /\ harness' = HarnessOutcome(
                  SortByScore(ScoreQAPairs(qaPairs, qaEmbeddings, queryEmbedding)),
                  SortByScore(ScoreChunks(chunks, chunkEmbeddings, queryEmbedding)),
                  limit)
  /\ UNCHANGED <<dataFiles, initPc, isInitializing, embedder, corpusVars, pc, topK,
                 localVars, response, vocabulary, queryVars, lastFailure, searchVars,
                 initCallVars, calls, hook>>

\* the corpora of the comparison: no, one or three Q&A pairs, no or three chunks
HarnessDataSets ==
  {[qaPairs |-> MakeQAPairs("cyclic", nq),
    qaEmbeddings |-> MakeQAEmbeddings("cyclic", nq),
    chunks |-> MakeChunks("cyclic", nc),
    chunkEmbeddings |-> MakeChunkEmbeddings("cyclic", nc)] :
      nq \in {0, 1, 3}, nc \in {0, 3}}

HarnessEmbeddings ==
  [qa : {<<58, 56>>, <<75, 60>>, <<50, 50>>},
   content : {<<58, 58>>, <<60, 54>>},
   decay : {0, 3}]

HarnessTopKs == {1, 3, DEFAULT_TOPK}

InitHarness == \E dataSet \in HarnessDataSets : Loaded(dataSet)

NextHarness ==
  \/ \E limit \in HarnessTopKs : hybridSearchCall(<<"m", "i", "l", "k">>, limit)
  \/ \E queryEmbedding \in HarnessEmbeddings : hybridSearchResume(queryEmbedding)
  \/ CallerTakesResponse
  \/ \E queryEmbedding \in HarnessEmbeddings, limit \in HarnessTopKs :
       testHybridSearch(queryEmbedding, limit)

SpecHarness == InitHarness /\ [][NextHarness]_vars

(***************************************************************************)
(* The useSearch hook of the assistant page: its mount effect, which React *)
(* may run more than once, and doSearch, which the page calls for every    *)
(* submitted or spoken query whether or not a search is in flight.         *)
(***************************************************************************)
\* a fetch or the loading of the pipeline rejects: doInitQASearch has no
\* catch, so its promise rejects
doInitQASearchFails ==
  /\ initPc \in {"fetchQAPairs", "fetchQAEmbeddings", "fetchChunks",
                 "fetchChunkEmbeddings", "pipeline"}
  /\ initPc' = "failed"
  /\ UNCHANGED <<dataFiles, isInitializing, embedder, corpusVars, pc, topK, localVars,
                 response, vocabulary, queryVars, lastFailure, searchVars,
                 initCallVars, clientVars>>

\* the effect: `if (isQAInitialized()) {...; return}`, otherwise
\* `initQASearch(setProgress).then(...).catch(...)` up to the return of the call
useSearchEffect ==
  /\ hook.effects < MaxInitCalls
  /\ IF embedder
     THEN /\ hook' = [hook EXCEPT !.isReady = TRUE, !.isLoading = FALSE,
                                  !.effects = @ + 1]
          /\ UNCHANGED <<dataFiles, initPc, isInitializing, embedder, corpusVars, pc,
                         topK, localVars, response, vocabulary, queryVars,
                         lastFailure, searchVars, initCallVars>>
     ELSE /\ initQASearchBody
          /\ hook' = [hook EXCEPT !.pending = @ + 1, !.effects = @ + 1]
  /\ UNCHANGED <<harness, calls>>

\* `.then(() => { setIsReady(true); setIsLoading(false) })`
initResolved ==
  /\ initPc = "done"
  /\ hook.pending > 0
  /\ hook' = [hook EXCEPT !.isReady = TRUE, !.isLoading = FALSE, !.pending = @ - 1]
  /\ UNCHANGED <<dataFiles, initPc, isInitializing, embedder, corpusVars, pc, topK,
                 localVars, response, vocabulary, queryVars, lastFailure, searchVars,
                 initCallVars, harness, calls>>

\* `.catch((err) => { setError(err.message); setIsLoading(false) })`
initRejected ==
  /\ initPc = "failed"
  /\ hook.pending > 0
  /\ hook' = [hook EXCEPT !.error = "Failed to fetch", !.isLoading = FALSE,
                          !.pending = @ - 1]
  /\ UNCHANGED <<dataFiles, initPc, isInitializing, embedder, corpusVars, pc, topK,
                 localVars, response, vocabulary, queryVars, lastFailure, searchVars,
                 initCallVars, harness, calls>>

NextInit ==
  \/ initQASearch
  \/ useSearchEffect
  \/ FetchQAPairs
  \/ FetchQAEmbeddings
  \/ FetchChunks
  \/ FetchChunkEmbeddings
  \/ PipelineLoaded
  \/ doInitQASearchFails
  \/ initResolved
  \/ initRejected

SpecInit == InitQuery /\ [][NextInit]_vars

NoEmbedding == [qa |-> << >>, content |-> << >>, decay |-> 0]

\* what hybridSearch returns for an embedding: the scoring loops, the
\* fusion, the sort, the de-duplication and the verdict
HybridResponse(queryEmbedding, limit, corr) ==
  CHOOSE resp \in
    {MakeResponse(final,
                  Classify(ScoreAt(final, 1), ScoreAt(final, 3), UniqueSections(final)),
                  correctedQueryOf(corr)) :
       final \in
         {Dedup(SortFused(BuildRRFScores(QAAsResults(qaRes) \o ContentAsResults(contentRes),
                                         BestScore(qaRes), BestScore(contentRes), << >>)),
                {}, << >>, limit) :
            qaRes \in {SortByScore(ScoreQAPairs(qaPairs, qaEmbeddings, queryEmbedding))},
            contentRes \in {SortByScore(ScoreChunks(chunks, chunkEmbeddings,
                                                    queryEmbedding))}}} : TRUE

\* doSearch that also adds the words of the query to the vocabulary
doSearchLearning(text) ==
  /\ hook.isReady
  /\ Len(calls) < MaxCalls
  /\ embedder
  /\ vocabulary' = vocabulary \o SelectSeq(split(toLowerCase(text)),
                                           LAMBDA w : \A n \in 1..Len(vocabulary) :
                                                        vocabulary[n] # w)
  /\ hook' = [hook EXCEPT !.isSearching = TRUE, !.error = "null"]
  /\ calls' = Append(calls,
                [pc |-> "embedding",
                 query |-> text,
                 correction |-> correctQuery(text, vocabulary),
                 embedText |-> prefixedText(searchQueryOf(text, correctQuery(text, vocabulary))),
                 embedding |-> NoEmbedding,
                 response |-> NoResponse])
  /\ UNCHANGED <<dataFiles, initPc, isInitializing, embedder, corpusVars, pc, topK,
                 localVars, response, queryVars, lastFailure, searchVars,
                 initCallVars, harness>>

\* doSearch(query) up to the suspension of hybridSearch(query, 5) at the
\* embedder; `if (!isReady) return`; a call on a module that is not
\* initialised throws at once, which the catch and the finally handle
doSearch(text) ==
  /\ hook.isReady
  /\ Len(calls) < MaxCalls
  /\ IF ~embedder
     THEN /\ hook' = [hook EXCEPT !.isSearching = FALSE,
                                  !.error = "Search not initialized"]
          /\ calls' = Append(calls,
                        [pc |-> "done",
                         query |-> text,
                         correction |-> NoCorrection,
                         embedText |-> << >>,
                         embedding |-> NoEmbedding,
                         response |-> [kind |-> "error",
                                       message |-> "Search not initialized"]])
     ELSE /\ hook' = [hook EXCEPT !.isSearching = TRUE, !.error = "null"]
          /\ calls' = Append(calls,
                        [pc |-> "embedding",
                         query |-> text,
                         correction |-> correctQuery(text, vocabulary),
                         embedText |-> prefixedText(searchQueryOf(text,
                                                      correctQuery(text, vocabulary))),
                         embedding |-> NoEmbedding,
                         response |-> NoResponse])
  /\ UNCHANGED <<dataFiles, initPc, isInitializing, embedder, corpusVars, pc, topK,
                 localVars, response, vocabulary, queryVars, lastFailure, searchVars,
                 initCallVars, harness>>

\* the embedding of call i arrives: hybridSearch returns and doSearch sets
\* the four fields in one go, then `finally { setIsSearching(false) }`
doSearchResume(i, queryEmbedding) ==
  /\ i \in 1..Len(calls)
  /\ calls[i].pc = "embedding"
  /\ calls' = [calls EXCEPT ![i] =
                 [@ EXCEPT !.pc = "done",
                           !.embedding = queryEmbedding,
                           !.response = HybridResponse(queryEmbedding, DEFAULT_TOPK,
                                                       calls[i].correction)]]
  /\ hook' = [hook EXCEPT !.results = calls'[i].response.results,
                          !.confidence = calls'[i].response.confidence,
                          !.topicCovered = calls'[i].response.topicCovered,
                          !.correctedQuery = calls'[i].response.correctedQuery,
                          !.isSearching = FALSE]
  /\ UNCHANGED <<dataFiles, initPc, isInitializing, embedder, corpusVars, pc, topK,
                 localVars, response, vocabulary, queryVars, lastFailure, searchVars,
                 initCallVars, harness>>

\* the embedder rejects call i: `setError(err.message)`, then the finally
doSearchEmbedFails(i, embedError) ==
  /\ i \in 1..Len(calls)
  /\ calls[i].pc = "embedding"
  /\ calls' = [calls EXCEPT ![i] =
                 [@ EXCEPT !.pc = "done",
                           !.response = [kind |-> "error", message |-> embedError]]]
  /\ hook' = [hook EXCEPT !.error = embedError, !.isSearching = FALSE]
  /\ UNCHANGED <<dataFiles, initPc, isInitializing, embedder, corpusVars, pc, topK,
                 localVars, response, vocabulary, queryVars, lastFailure, searchVars,
                 initCallVars, harness>>

\* the corpora under the hook: questions and chunks, chunks only
HookDataSets ==
  {[qaPairs |-> MakeQAPairs("cyclic", nq),
    qaEmbeddings |-> MakeQAEmbeddings("cyclic", nq),
    chunks |-> MakeChunks("cyclic", 2),
    chunkEmbeddings |-> MakeChunkEmbeddings("cyclic", 2)] : nq \in {0, 3}}

\* a misspelt query and a query of known words
HookQueries ==
  {<<"f", "o", "m", "u", "l", "a", " ", "s", "t", "o", "r", "a", "g", "e">>,
   <<"t", "e", "m", "p", "u", "r", "a", "t", "u", "r", "e", " ", "f", "o", "r", " ", "m", "i", "l", "k">>}

HookEmbeddings ==
  {[qa |-> <<75, 58>>, content |-> <<58, 54>>, decay |-> 0],
   [qa |-> <<54, 54>>, content |-> <<66, 54>>, decay |-> 0]}

\* the hook as its effect leaves it on an initialised module
HookReady == [HookInitial EXCEPT !.isReady = TRUE, !.isLoading = FALSE, !.effects = 1]

\* the module initialised and the hook mounted
InitHook ==
  \E dataSet \in HookDataSets :
    /\ dataFiles = dataSet
    /\ initPc = "done"
    /\ isInitializing = TRUE
    /\ embedder = TRUE
    /\ qaPairs = dataSet.qaPairs
    /\ qaEmbeddings = dataSet.qaEmbeddings
    /\ chunks = dataSet.chunks
    /\ chunkEmbeddings = dataSet.chunkEmbeddings
    /\ vocabulary = buildVocabulary(dataSet.qaPairs, dataSet.chunks)
    /\ pc = "idle"
    /\ topK = 0
    /\ qaResults = << >>
    /\ contentResults = << >>
    /\ rrfScores = << >>
    /\ sortedResults = << >>
    /\ finalResults = << >>
    /\ response = NoResponse
    /\ query = << >>
    /\ correction = NoCorrection
    /\ embedCalls = << >>
    /\ lastFailure = NoFailure
    /\ SearchFresh
    /\ CalledOnce
    /\ harness = NoHarness
    /\ calls = << >>
    /\ hook = HookReady

\* the embedding the direct calls of searchQA and searchContent receive
DirectEmbeddings == {[qa |-> <<75, 58>>, content |-> <<58, 54>>, decay |-> 0]}

NextHook ==
  \/ \E text \in HookQueries : doSearch(text)
  \/ \E i \in 1..MaxCalls, queryEmbedding \in HookEmbeddings : doSearchResume(i, queryEmbedding)
  \/ \E i \in 1..MaxCalls : doSearchEmbedFails(i, "session closed")
  \/ searchQACall(<<"m", "i", "l", "k">>, 2)
  \/ \E queryEmbedding \in DirectEmbeddings : searchQAResume(queryEmbedding)
  \/ searchContentCall(<<"m", "i", "l", "k">>, 2)
  \/ \E queryEmbedding \in DirectEmbeddings : searchContentResume(queryEmbedding)
  \/ CallerTakesResponse

SpecHook == InitHook /\ [][NextHook]_vars

(***************************************************************************)
Returned == pc = "done" /\ response.kind = "ok"

\* the first three entries of the fused, de-duplicated list
TopThree == 1..(IF Len(finalResults) < 3 THEN Len(finalResults) ELSE 3)
TopTitles == {finalResults[i].chunk.sectionTitle : i \in TopThree}
TopScore == IF Len(finalResults) >= 1 THEN finalResults[1].score ELSE 0
ThirdScore == IF Len(finalResults) >= 3 THEN finalResults[3].score ELSE 0

\* C1: the list returned by hybridSearch never contains two entries with
\* the same section identifier (chunk.id), whatever their sources
C1_NoDuplicateSections ==
  Returned =>
    \A i, j \in 1..Len(response.results) :
      i # j => response.results[i].chunk.id # response.results[j].chunk.id

\* a response with several entries, one of them for a section that was
\* matched both by a Q&A pair and by a content chunk
C1_Witness ==
  /\ Returned
  /\ Len(response.results) >= 2
  /\ \E i \in 1..Len(response.results), a, b \in 1..Len(rrfScores) :
       /\ rrfScores[a].result.chunk.id = response.results[i].chunk.id
       /\ rrfScores[b].result.chunk.id = response.results[i].chunk.id
       /\ rrfScores[a].result.isQA
       /\ ~rrfScores[b].result.isQA

\* C2: the verdict is HIGH/covered for s1 >= 0.75, else MEDIUM/covered for
\* s1 >= 0.65, else for s1 >= 0.55 NONE/not covered when d >= 3 and
\* s1 - s3 < 0.03 and LOW/covered otherwise, else NONE/not covered
C2_ClassifierTable ==
  Returned =>
    LET s1 == TopScore
        s3 == ThirdScore
        d == Cardinality(TopTitles)
        expected ==
          CASE s1 >= 75 -> <<"high", TRUE>>
            [] s1 < 75 /\ s1 >= 65 -> <<"medium", TRUE>>
            [] s1 < 65 /\ s1 >= 55 /\ d >= 3 /\ DoubleGapBelow(s1, s3) -> <<"none", FALSE>>
            [] s1 < 65 /\ s1 >= 55 /\ ~(d >= 3 /\ DoubleGapBelow(s1, s3)) -> <<"low", TRUE>>
            [] s1 < 55 -> <<"none", FALSE>>
    IN <<response.confidence, response.topicCovered>> = expected

\* a LOW verdict over three distinct titles: the gap decided it
C2_Witness ==
  /\ Returned
  /\ response.confidence = "low"
  /\ Cardinality(TopTitles) = 3
  /\ TopScore - ThirdScore = SCATTER_GAP

\* C3: top-3 raw scores 0.58, 0.56, 0.55 over three distinct section titles
\* give confidence NONE and covered = false
C3_ScatteredLowScores ==
  ( /\ Returned
    /\ Len(finalResults) >= 3
    /\ finalResults[1].score = 58
    /\ finalResults[2].score = 56
    /\ finalResults[3].score = 55
    /\ Cardinality(TopTitles) = 3 )
  => /\ response.confidence = "none"
     /\ response.topicCovered = FALSE

C3_Witness ==
  /\ Returned
  /\ Len(finalResults) >= 3
  /\ finalResults[1].score = 58
  /\ finalResults[2].score = 56
  /\ finalResults[3].score = 55
  /\ Cardinality(TopTitles) = 3
  /\ response.results = << >>

\* C4: topicCovered is false exactly when confidence is "none", and then
\* results is empty; a covered response has results and a confidence of
\* high, medium or low
C4_VerdictCoupling ==
  Returned =>
    /\ (response.topicCovered = FALSE) <=> (response.confidence = "none")
    /\ ~response.topicCovered => response.results = << >>
    /\ response.topicCovered =>
         /\ response.results # << >>
         /\ response.confidence \in {"high", "medium", "low"}

\* a not-covered response although candidates were found
C4_Witness ==
  /\ Returned
  /\ ~response.topicCovered
  /\ finalResults # << >>
  /\ response.results = << >>

\* C5: the returned list has at most top-K entries, for every top-K >= 0
C5_AtMostTopK ==
  Returned => Len(response.results) <= topK

\* the verdict tiers in their order
TierOf(confidence) ==
  CASE confidence = "none" -> 0
    [] confidence = "low" -> 1
    [] confidence = "medium" -> 2
    [] confidence = "high" -> 3

\* C6: with the third score and the top-3 titles of the call held fixed,
\* a higher top score never gives a lower tier and never turns covered
\* into not covered
C6_MonotonicInTopScore ==
  Returned =>
    \A s \in TopScore..100 :
      LET lower == Classify(TopScore, ThirdScore, Cardinality(TopTitles))
          higher == Classify(s, ThirdScore, Cardinality(TopTitles))
      IN /\ TierOf(lower.confidence) <= TierOf(higher.confidence)
         /\ lower.topicCovered => higher.topicCovered

\* a scattered NONE in the low band that a higher top score in the same
\* band turns into LOW
C6_Witness ==
  /\ Returned
  /\ TopScore >= CONFIDENCE_LOW_THRESHOLD
  /\ response.confidence = "none"
  /\ Cardinality(TopTitles) = 3
  /\ \E s \in TopScore..(CONFIDENCE_MEDIUM_THRESHOLD - 1) :
       Classify(s, ThirdScore, 3).confidence = "low"

\* the largest raw score of a list of scored candidates, 0 for none
MaxScoreOf(res) ==
  IF res = << >> THEN 0
  ELSE CHOOSE m \in {res[i].score : i \in 1..Len(res)} :
         \A i \in 1..Len(res) : res[i].score <= m

\* C7: with both candidate lists non-empty, content candidates are fused
\* with weight 1.0 and all Q&A candidates with 1.2 exactly when the best Q&A
\* similarity is >= the best content similarity, and with 1.0 otherwise
C7_AdaptiveWeight ==
  (Returned /\ qaResults # << >> /\ contentResults # << >>) =>
    \A i \in 1..Len(rrfScores) :
      LET e == rrfScores[i]
          expected ==
            IF ~e.result.isQA THEN 10
            ELSE IF MaxScoreOf(qaResults) >= MaxScoreOf(contentResults)
                 THEN 12 ELSE 10
      IN e.rrfScore.num * (60 + e.result.originalRank + 1) = expected * e.rrfScore.den

\* both lists non-empty with equal best scores, and a boosted Q&A entry
C7_Witness ==
  /\ Returned
  /\ qaResults # << >>
  /\ contentResults # << >>
  /\ MaxScoreOf(qaResults) = MaxScoreOf(contentResults)
  /\ \E i \in 1..Len(rrfScores) :
       rrfScores[i].result.isQA /\ rrfScores[i].rrfScore.num = 12

\* the admitted candidates of the two lists
AdmittedQA == SubSeq(qaResults, 1, IF Len(qaResults) < 10 THEN Len(qaResults) ELSE 10)
AdmittedContent ==
  SubSeq(contentResults, 1, IF Len(contentResults) < 20 THEN Len(contentResults) ELSE 20)

\* 0-indexed ranks at which a section occurs in each window
QARanksOf(sec) == {i - 1 : i \in {j \in 1..Len(AdmittedQA) : AdmittedQA[j].qa.sectionId = sec}}
ContentRanksOf(sec) ==
  {i - 1 : i \in {j \in 1..Len(AdmittedContent) : AdmittedContent[j].chunk.id = sec}}

MinOf(S) == CHOOSE m \in S : \A x \in S : m <= x

QAWeightNow ==
  IF MaxScoreOf(contentResults) > MaxScoreOf(qaResults) THEN 10 ELSE 12

\* C8 as stated: a section that occurs once in each list is fused with the
\* sum of its two contributions weight / (60 + r + 1)
C8_SummedContributions ==
  Returned =>
    \A i \in 1..Len(rrfScores) :
      LET e == rrfScores[i]
          sec == e.result.chunk.id
      IN (Cardinality(QARanksOf(sec)) = 1 /\ Cardinality(ContentRanksOf(sec)) = 1) =>
           LET dq == 60 + MinOf(QARanksOf(sec)) + 1
               dc == 60 + MinOf(ContentRanksOf(sec)) + 1
           IN e.rrfScore.num * dq * dc = e.rrfScore.den * (QAWeightNow * dc + 10 * dq)

\* C8 amended: rrfScores holds exactly one entry per (section, source) of
\* the admitted candidates; the entry is the best-ranked candidate of that
\* section in that one list and its fused score is weight / (60 + r + 1)
\* for that rank r alone
C8_BestRankPerKey ==
  Returned =>
    /\ \A i \in 1..Len(rrfScores) :
         LET e == rrfScores[i]
             sec == e.result.chunk.id
             ranks == IF e.result.isQA THEN QARanksOf(sec) ELSE ContentRanksOf(sec)
             w == IF e.result.isQA THEN QAWeightNow ELSE 10
         IN /\ ranks # {}
            /\ e.result.originalRank = MinOf(ranks)
            /\ e.rrfScore.num * (60 + MinOf(ranks) + 1) = w * e.rrfScore.den
    /\ \A i, j \in 1..Len(rrfScores) :
         ( /\ rrfScores[i].result.chunk.id = rrfScores[j].result.chunk.id
           /\ rrfScores[i].result.isQA = rrfScores[j].result.isQA ) => i = j
    /\ \A i \in 1..Len(AdmittedQA) :
         \E j \in 1..Len(rrfScores) :
           rrfScores[j].result.isQA /\ rrfScores[j].result.chunk.id = AdmittedQA[i].qa.sectionId
    /\ \A i \in 1..Len(AdmittedContent) :
         \E j \in 1..Len(rrfScores) :
           ~rrfScores[j].result.isQA /\ rrfScores[j].result.chunk.id = AdmittedContent[i].chunk.id

\* a section matched by several Q&A pairs and by a content chunk: one entry
\* per source, the Q&A one at the best of its ranks
C8_Witness ==
  /\ Returned
  /\ \E i, j \in 1..Len(rrfScores) :
       /\ rrfScores[i].result.chunk.id = rrfScores[j].result.chunk.id
       /\ rrfScores[i].result.isQA
       /\ ~rrfScores[j].result.isQA
       /\ Cardinality(QARanksOf(rrfScores[i].result.chunk.id)) >= 2

\* the fused score computed for a returned entry
FusedOf(r) ==
  LET i == CHOOSE j \in 1..Len(rrfScores) :
             /\ rrfScores[j].result.chunk.id = r.chunk.id
             /\ rrfScores[j].result.isQA = (r.source = "qa")
  IN rrfScores[i].rrfScore

\* C9: for a returned entry preceding another, the later fused score is not
\* more than 0.0001 above the earlier one, and fused scores less than 0.0001
\* apart come in descending order of raw similarity
C9_OrderedByFusedThenRaw ==
  Returned =>
    \A i, j \in 1..Len(response.results) :
      i < j =>
        LET a == FusedOf(response.results[i])
            b == FusedOf(response.results[j])
            diffNum == b.num * a.den - a.num * b.den
            den == 10 * a.den * b.den
        IN /\ diffNum * 10000 <= den
           /\ (diffNum * 10000 < den /\ -diffNum * 10000 < den) =>
                response.results[i].score >= response.results[j].score

\* two returned entries with tied fused scores and different raw scores
C9_Witness ==
  /\ Returned
  /\ \E i, j \in 1..Len(response.results) :
       /\ i < j
       /\ FusedOf(response.results[i]) = FusedOf(response.results[j])
       /\ response.results[i].score > response.results[j].score

\* C10: every returned entry is one of the 10 best-scoring Q&A pairs or one
\* of the 20 best-scoring content chunks
C10_OnlyAdmittedCandidates ==
  Returned =>
    \A i \in 1..Len(response.results) :
      LET r == response.results[i]
      IN IF r.source = "qa"
         THEN /\ \E p \in 1..Len(qaResults) :
                   /\ p <= 10
                   /\ qaResults[p].qa.question = r.chunk.embeddingText
                   /\ qaResults[p].score = r.score
              /\ Cardinality({p \in 1..Len(qaResults) : qaResults[p].score > r.score}) < 10
         ELSE /\ \E p \in 1..Len(contentResults) :
                   /\ p <= 20
                   /\ contentResults[p].chunk.chunkId = r.chunk.chunkId
                   /\ contentResults[p].score = r.score
              /\ Cardinality({p \in 1..Len(contentResults) :
                                contentResults[p].score > r.score}) < 20

\* both lists longer than their windows, entries of both sources returned
C10_Witness ==
  /\ Returned
  /\ Len(qaResults) > 10
  /\ Len(contentResults) > 20
  /\ \E i, j \in 1..Len(response.results) :
       response.results[i].source = "qa" /\ response.results[j].source = "content"

\* C11: a content chunk with similarity >= 0.75 whose similarity exceeds
\* that of every Q&A pair and of every other chunk is returned first, with
\* confidence HIGH and covered = true
C11_BestChunkFirstHigh ==
  ( /\ Returned
    /\ contentResults # << >>
    /\ contentResults[1].score >= 75
    /\ \A i \in 2..Len(contentResults) : contentResults[i].score < contentResults[1].score
    /\ \A i \in 1..Len(qaResults) : qaResults[i].score < contentResults[1].score )
  => /\ response.results # << >>
     /\ response.results[1].source = "content"
     /\ response.results[1].chunk = contentResults[1].chunk
     /\ response.results[1].score = contentResults[1].score
     /\ response.confidence = "high"
     /\ response.topicCovered = TRUE

\* such a chunk returned ahead of the best Q&A pair, which is of the same
\* section and has the same fused score 1/61
C11_Witness ==
  /\ Returned
  /\ Len(contentResults) >= 2
  /\ qaResults # << >>
  /\ contentResults[1].score >= 75
  /\ \A i \in 2..Len(contentResults) : contentResults[i].score < contentResults[1].score
  /\ \A i \in 1..Len(qaResults) : qaResults[i].score < contentResults[1].score
  /\ qaResults[1].qa.sectionId = contentResults[1].chunk.id
  /\ response.results[1].chunk = contentResults[1].chunk

\* a correctQuery result is at hand
Corrected == correction # NoCorrection

\* token i of the query was replaced by another word
Replaced(i) ==
  /\ correction.correctedWords[i] # correction.words[i]
  /\ correction.correctedWords[i] # toLowerCase(correction.words[i])

\* tokens that are never replaced
Exempt(token) ==
  \/ Len(token) < 5
  \/ ~IsAlphabetic(token)
  \/ InVocabulary(vocabulary, toLowerCase(token))
  \/ toLowerCase(token) \in COMMON_WORDS

\* C12: a token shorter than 5 characters, with a non-alphabetic character,
\* in the vocabulary in any letter case, or in the stoplist is emitted
\* verbatim or lower-cased and does not set hadCorrections; a query of
\* vocabulary words only gives hadCorrections = false and the tokens
\* case-folded
C12_ExemptTokensKept ==
  Corrected =>
    LET words == correction.words
    IN /\ Len(correction.correctedWords) = Len(words)
       /\ \A i \in 1..Len(words) : Exempt(words[i]) => ~Replaced(i)
       /\ correction.hadCorrections => \E i \in 1..Len(words) : ~Exempt(words[i]) /\ Replaced(i)
       /\ (\A i \in 1..Len(words) : InVocabulary(vocabulary, toLowerCase(words[i]))) =>
            /\ ~correction.hadCorrections
            /\ correction.corrected = join([i \in 1..Len(words) |-> toLowerCase(words[i])])

\* a query of vocabulary words in mixed case, one of them one edit away
\* from another vocabulary word, comes back case-folded
C12_Witness ==
  /\ Corrected
  /\ Len(correction.words) >= 2
  /\ \A i \in 1..Len(correction.words) :
       InVocabulary(vocabulary, toLowerCase(correction.words[i]))
  /\ \E i \in 1..Len(correction.words), j \in 1..Len(vocabulary) :
       levenshteinDistance(toLowerCase(correction.words[i]), vocabulary[j]) = 1
  /\ correction.corrected # query
  /\ ~correction.hadCorrections

\* the vocabulary words a query is one single-character edit away from
EditedFrom(text) ==
  {i \in 1..Len(vocabulary) : Len(vocabulary[i]) >= 8 /\ text \in SingleEdits(vocabulary[i])}

\* C13 as stated: a token one single-character edit away from a vocabulary
\* word w of length >= 8 is corrected to w, with hadCorrections = true
C13_SingleEditRestored ==
  Corrected =>
    \A i \in EditedFrom(query) :
      /\ correction.hadCorrections
      /\ correction.corrected = vocabulary[i]

\* the edits that findBestMatch undoes: the token is made of letters, its
\* lower-case form is in neither the vocabulary nor the stoplist, neither of
\* it and w is a substring of the other, and no word iterated before w is
\* one edit away under the same restrictions
Restorable(text, i) ==
  LET lower == toLowerCase(text)
  IN /\ IsAlphabetic(text)
     /\ ~InVocabulary(vocabulary, lower)
     /\ lower \notin COMMON_WORDS
     /\ ~includes(lower, vocabulary[i])
     /\ ~includes(vocabulary[i], lower)
     /\ \A j \in 1..(i - 1) :
          \/ includes(lower, vocabulary[j])
          \/ includes(vocabulary[j], lower)
          \/ levenshteinDistance(lower, vocabulary[j]) > 1

\* C13 amended: such a token is corrected to w when the edit is restorable
C13_RestorableEditRestored ==
  Corrected =>
    \A i \in EditedFrom(query) :
      Restorable(query, i) =>
        /\ correction.hadCorrections
        /\ correction.corrected = vocabulary[i]

\* a seven-letter token, an eight-letter word less one inner letter,
\* restored
C13_Witness ==
  /\ Corrected
  /\ Len(query) = 7
  /\ \E i \in EditedFrom(query) :
       /\ Restorable(query, i)
       /\ correction.corrected = vocabulary[i]
       /\ correction.hadCorrections

\* the restrictions of C14 between a token and a vocabulary word
Eligible(token, word) ==
  LET maxDistance == IF Len(token) >= 8 THEN 2 ELSE 1
      distance == levenshteinDistance(token, word)
  IN /\ Abs(Len(token) - Len(word)) <= maxDistance
     /\ ~includes(token, word)
     /\ ~includes(word, token)
     /\ distance >= 1
     /\ distance <= maxDistance

\* a replacement obeys the restrictions and is a closest eligible word
ReplacementIsClosest(i) ==
  LET token == toLowerCase(correction.words[i])
      word == correction.correctedWords[i]
  IN /\ InVocabulary(vocabulary, word)
     /\ Eligible(token, word)
     /\ \A j \in 1..Len(vocabulary) :
          Eligible(token, vocabulary[j]) =>
            levenshteinDistance(token, vocabulary[j]) >= levenshteinDistance(token, word)

\* C14 as stated: a replacement obeys the restrictions and is a closest
\* eligible word, and a token with an eligible vocabulary word is replaced
C14_ReplacedIffEligible ==
  Corrected =>
    \A i \in 1..Len(correction.words) :
      /\ Replaced(i) => ReplacementIsClosest(i)
      /\ (\E j \in 1..Len(vocabulary) :
            Eligible(toLowerCase(correction.words[i]), vocabulary[j])) => Replaced(i)

\* C14 amended: the token is compared in lower case, and it is replaced when
\* an eligible word exists provided it is handed to findBestMatch (letters
\* only), has at least 5 characters and is in neither the vocabulary nor the
\* stoplist
C14_ReplacedIffEligibleAndExamined ==
  Corrected =>
    \A i \in 1..Len(correction.words) :
      /\ Replaced(i) => ReplacementIsClosest(i)
      /\ ( /\ ~Exempt(correction.words[i])
           /\ \E j \in 1..Len(vocabulary) :
                Eligible(toLowerCase(correction.words[i]), vocabulary[j]) ) => Replaced(i)

\* a token with two eligible words at the same distance, replaced by the
\* one iterated first
C14_Witness ==
  /\ Corrected
  /\ \E i \in 1..Len(correction.words), a, b \in 1..Len(vocabulary) :
       /\ a < b
       /\ Eligible(toLowerCase(correction.words[i]), vocabulary[a])
       /\ Eligible(toLowerCase(correction.words[i]), vocabulary[b])
       /\ Replaced(i)
       /\ correction.correctedWords[i] = vocabulary[a]

\* C15: the text handed to the embedder is the corrected string exactly
\* when correctQuery reported a correction and the query as given otherwise;
\* correctedQuery is the corrected string exactly when a correction occurred
\* and null otherwise, whether or not the topic is covered
C15_EmbedsCorrectedIffCorrected ==
  LET result == correctQuery(query, vocabulary)
  IN /\ embedCalls # << >> =>
          embedCalls[1] = EmbedPrefix \o (IF result.hadCorrections THEN result.corrected
                                          ELSE query)
     /\ Returned =>
          /\ embedCalls # << >>
          /\ result.hadCorrections => response.correctedQuery = result.corrected
          /\ ~result.hadCorrections => response.correctedQuery = Null

\* a not covered response that carries the corrected string of a misspelt
\* query, the string that was embedded
C15_Witness ==
  /\ Returned
  /\ ~response.topicCovered
  /\ response.correctedQuery # Null
  /\ response.correctedQuery # query
  /\ embedCalls = <<EmbedPrefix \o response.correctedQuery>>

\* the call ended with an error of the embedder
EmbedFailed == pc = "done" /\ response.kind = "error" /\ response.message \in EmbedErrors

\* C19: a failed embedding rejects the call with the embedder's error after
\* one attempt, nothing of a result is produced, and any call that passes
\* the initialisation check, a repetition of a failed query included, hands
\* its text to the embedder
C19_EmbedFailureNotRemembered ==
  /\ Len(embedCalls) <= 1
  /\ EmbedFailed =>
       /\ Len(embedCalls) = 1
       /\ <<qaResults, contentResults, rrfScores, sortedResults, finalResults>>
            = <<<< >>, << >>, << >>, << >>, << >>>>
       /\ DOMAIN response = {"kind", "message"}
       /\ lastFailure = [failed |-> TRUE, query |-> query]
  /\ (pc = "done" /\ response.kind = "error") =>
       \/ response.message \in EmbedErrors
       \/ response.message = "Search not initialized" /\ embedCalls = << >>
  /\ pc = "embedding" => Len(embedCalls) = 1

\* the query whose embedding failed is searched again and is at the
\* embedder again
C19_Witness ==
  /\ pc = "embedding"
  /\ lastFailure.failed
  /\ lastFailure.query = query
  /\ embedCalls = <<EmbedPrefix \o searchQueryOf(query, correction)>>

\* the corpus without the entries that have no embedding
EmbeddedQAPairs == SelectSeq(qaPairs, LAMBDA qa : qa.question \in qaEmbeddings)
EmbeddedChunks == SelectSeq(chunks, LAMBDA chunk : chunk.chunkId \in chunkEmbeddings)

\* the similarity the call computed for a question or a chunk
QAScoreOf(question) ==
  qaResults[CHOOSE i \in 1..Len(qaResults) : qaResults[i].qa.question = question].score
ChunkScoreOf(chunkId) ==
  contentResults[CHOOSE i \in 1..Len(contentResults) :
                   contentResults[i].chunk.chunkId = chunkId].score

\* the list hybridSearch builds from a corpus in which every entry has its
\* embedding and the similarities are those of the call
RankingOver(pairs, cs) ==
  LET qaRes == SortByScore([i \in 1..Len(pairs) |->
                              [qa |-> pairs[i], score |-> QAScoreOf(pairs[i].question),
                               matchedQuestion |-> pairs[i].question]])
      contentRes == SortByScore([i \in 1..Len(cs) |->
                                   [chunk |-> cs[i], score |-> ChunkScoreOf(cs[i].chunkId)]])
  IN Dedup(SortFused(BuildRRFScores(QAAsResults(qaRes) \o ContentAsResults(contentRes),
                                    BestScore(qaRes), BestScore(contentRes), << >>)),
           {}, << >>, topK)

\* C20: a Q&A pair without an entry in the Q&A embedding map and a chunk
\* without an entry in the chunk embedding map are not scored and not
\* returned, the call does not fail over them, and the list is the one the
\* corpus without them gives
C20_UnembeddedEntriesSkipped ==
  /\ (pc = "done" /\ response.kind = "error") => response.message = "Search not initialized"
  /\ pc = "embedding" => embedder
  /\ Returned =>
       /\ {qaResults[i].qa.question : i \in 1..Len(qaResults)}
            = {qaPairs[i].question : i \in 1..Len(qaPairs)} \cap qaEmbeddings
       /\ {contentResults[i].chunk.chunkId : i \in 1..Len(contentResults)}
            = {chunks[i].chunkId : i \in 1..Len(chunks)} \cap chunkEmbeddings
       /\ \A i \in 1..Len(response.results) :
            LET r == response.results[i]
            IN IF r.source = "qa" THEN r.chunk.embeddingText \in qaEmbeddings
               ELSE r.chunk.chunkId \in chunkEmbeddings
       /\ (Len(EmbeddedQAPairs) < Len(qaPairs) \/ Len(EmbeddedChunks) < Len(chunks)) =>
            finalResults = RankingOver(EmbeddedQAPairs, EmbeddedChunks)

\* a corpus with a Q&A pair and a chunk that lack their embeddings, searched
\* with a covered result
C20_Witness ==
  /\ Returned
  /\ Len(qaResults) >= 2
  /\ Len(qaResults) < Len(qaPairs)
  /\ Len(contentResults) >= 2
  /\ Len(contentResults) < Len(chunks)
  /\ response.results # << >>

\* an expanded text is at hand
Expanded == sPc = "idle" /\ sQuery # << >>

\* what expandQuery appended to the lower-cased query
AppendedPart == SubSeq(expandedQuery, Len(sQuery) + 1, Len(expandedQuery))

\* C16: the expanded text starts with the lower-cased query and, for every
\* key of the synonym table that is a substring of the lower-cased query,
\* has every synonym of that key in the part appended
C16_ExpansionAppendsSynonyms ==
  Expanded =>
    /\ Len(expandedQuery) >= Len(sQuery)
    /\ SubSeq(expandedQuery, 1, Len(sQuery)) = toLowerCase(sQuery)
    /\ \A i \in 1..Len(SYNONYMS) :
         includes(toLowerCase(sQuery), SYNONYMS[i].term) =>
           \A j \in 1..Len(SYNONYMS[i].synonyms) :
             includes(AppendedPart, SYNONYMS[i].synonyms[j])

\* a query in capitals with two keys of the table, one inside the other:
\* the synonyms of both are appended to the lower-cased query
C16_Witness ==
  /\ Expanded
  /\ toLowerCase(sQuery) # sQuery
  /\ \E i, j \in 1..Len(SYNONYMS) :
       /\ i # j
       /\ includes(SYNONYMS[j].term, SYNONYMS[i].term)
       /\ includes(toLowerCase(sQuery), SYNONYMS[j].term)
       /\ \A n \in 1..Len(SYNONYMS[i].synonyms) :
            includes(AppendedPart, SYNONYMS[i].synonyms[n])
       /\ \A n \in 1..Len(SYNONYMS[j].synonyms) :
            includes(AppendedPart, SYNONYMS[j].synonyms[n])

\* a search call past its embedding step, with candidates
Boosted == sPc \in {"reranking", "done"} /\ sResults # << >>

\* the product of the factors 1.2, 1.1, 1.1 that apply, as a fraction
BoostFactor(time, number, category) ==
  Fraction((IF time THEN 12 ELSE 10) * (IF number THEN 11 ELSE 10)
             * (IF category THEN 11 ELSE 10), 1000)

AnyDigit(content) == \E i \in 1..Len(content) : content[i] \in Digits

\* a run of digits with no letter, digit or underscore next to it
StandaloneNumber(content) ==
  \E i \in 1..Len(content) : \E j \in i..Len(content) :
    /\ \A n \in i..j : content[n] \in Digits
    /\ i = 1 \/ ~IsWordChar(content[i - 1])
    /\ j = Len(content) \/ ~IsWordChar(content[j + 1])

TimeBoostDue(chunk) == hasTimeIntent(sQuery) /\ hasTimeContent(ContentText(chunk.chunkId))
CategoryBoostDue(chunk) == CategoryOf(chunk.chunkId) \in getRelevantCategories(sQuery)

\* entry n of the list that is sorted carries the fused score of its chunk
\* times the given factor
CarriesFusedTimes(n, factor) ==
  \E i \in 1..Len(fusedScores) :
    /\ sChunks[fusedScores[i].index] = sResults[n].chunk
    /\ sResults[n].score = FractionTimes(fusedScores[i].score, factor.num, factor.den)

\* C17 as stated: every candidate of search carries its fused score times
\* 1.2 (time intent and time word), times 1.1 (numeric intent and any digit
\* in the content), times 1.1 (category the query maps to), composed
C17_BoostsWithAnyDigit ==
  Boosted =>
    /\ Len(sResults) = Len(fusedScores)
    /\ \A n \in 1..Len(sResults) :
         CarriesFusedTimes(n,
           BoostFactor(TimeBoostDue(sResults[n].chunk),
                       hasNumberIntent(sQuery)
                         /\ AnyDigit(ContentText(sResults[n].chunk.chunkId)),
                       CategoryBoostDue(sResults[n].chunk)))

\* C17, amended: the same with the numeric factor applied when the content
\* holds a standalone number, not merely a digit
C17_BoostsWithStandaloneNumber ==
  Boosted =>
    /\ Len(sResults) = Len(fusedScores)
    /\ \A n \in 1..Len(sResults) :
         CarriesFusedTimes(n,
           BoostFactor(TimeBoostDue(sResults[n].chunk),
                       hasNumberIntent(sQuery)
                         /\ StandaloneNumber(ContentText(sResults[n].chunk.chunkId)),
                       CategoryBoostDue(sResults[n].chunk)))

\* one candidate with all three factors, one with none although its content
\* has a digit and the query numeric intent
C17_Witness ==
  /\ Boosted
  /\ hasNumberIntent(sQuery)
  /\ \E n \in 1..Len(sResults) :
       /\ TimeBoostDue(sResults[n].chunk)
       /\ StandaloneNumber(ContentText(sResults[n].chunk.chunkId))
       /\ CategoryBoostDue(sResults[n].chunk)
  /\ \E n \in 1..Len(sResults) :
       /\ ~TimeBoostDue(sResults[n].chunk)
       /\ AnyDigit(ContentText(sResults[n].chunk.chunkId))
       /\ ~StandaloneNumber(ContentText(sResults[n].chunk.chunkId))
       /\ ~CategoryBoostDue(sResults[n].chunk)
       /\ CarriesFusedTimes(n, [num |-> 1, den |-> 1])

\* everything doInitQASearch loads and builds is in place
QALoaded ==
  /\ qaPairs = dataFiles.qaPairs
  /\ qaEmbeddings = dataFiles.qaEmbeddings
  /\ chunks = dataFiles.chunks
  /\ chunkEmbeddings = dataFiles.chunkEmbeddings
  /\ vocabulary = buildVocabulary(dataFiles.qaPairs, dataFiles.chunks)

\* everything initSearch loads and builds for search is in place
DenseLoaded ==
  /\ sChunks = dataFiles.chunks
  /\ embeddings = dataFiles.chunkEmbeddings
  /\ bm25 = BuildIndex(dataFiles.chunks)

NotInitialized(resp) ==
  /\ resp.kind = "error"
  /\ resp.message \in {"Q&A Search not initialized", "Search not initialized"}

\* a call of searchQA, searchContent or hybridSearch that has passed the
\* initialisation check
PastQACheck ==
  \/ pc \in {"embedding", "embeddingQA", "embeddingContent"}
  \/ pc = "done" /\ ~NotInitialized(response)

\* a call of search that has passed the initialisation check
PastDenseCheck ==
  \/ sPc \in {"embedding", "reranking"}
  \/ sPc = "done" /\ ~NotInitialized(sResponse)

\* a call that starts before the construction is over ends in the same
\* step, with the error
RejectedEarly ==
  /\ (pc = "idle" /\ pc' # "idle" /\ initPc # "done")
       => (pc' = "done" /\ NotInitialized(response'))
  /\ (sPc = "idle" /\ sPc' # "idle" /\ ~bm25.indexed)
       => (sPc' = "done" /\ NotInitialized(sResponse'))

\* C18: under any interleaving of the steps of both initialisations with
\* calls of searchQA, searchContent, hybridSearch and search, a call that
\* starts before the maps and the index are built is rejected with a "not
\* initialized" error and gives no result list, and a call past the
\* initialisation check sees the loaded Q&A pairs, chunks, both embedding
\* maps, the vocabulary and the BM25 index
C18_RejectedBeforeLoadedAfter ==
  /\ [](PastQACheck => QALoaded)
  /\ [](PastDenseCheck => DenseLoaded /\ extractor)
  /\ [][RejectedEarly]_vars

\* a call of search suspended past its check while a second run of
\* initSearch is fetching and the Q&A module, not yet loaded, has just
\* rejected a call
C18_Witness ==
  /\ sPc = "embedding"
  /\ DenseLoaded
  /\ Len(sChunks) > 0
  /\ \E run \in 1..MaxInitRuns : sInitPc[run] \in {"fetchChunks", "fetchEmbeddings"}
  /\ pc = "done"
  /\ NotInitialized(response)
  /\ initPc \in {"fetchChunks", "fetchChunkEmbeddings", "pipeline"}
  /\ Len(qaPairs) > 0

\* positions of the Q&A and of the content entries in the fused list
FusedQA == {i \in 1..Len(sortedResults) : sortedResults[i].result.isQA}
FusedContent == {i \in 1..Len(sortedResults) : ~sortedResults[i].result.isQA}

\* the Q&A boost applies
Boost == BestScore(qaResults) >= BestScore(contentResults)

\* the similarities of all scored candidates
RawScores ==
  {qaResults[i].score : i \in 1..Len(qaResults)}
    \cup {contentResults[i].score : i \in 1..Len(contentResults)}

\* C26: the first entry of the fused, de-duplicated list of hybridSearch
\* carries the largest similarity of all scored candidates, the larger of
\* the best Q&A score and the best content score
C26_FirstEntryHasMaxSimilarity ==
  Returned =>
    IF RawScores = {} THEN finalResults = << >>
    ELSE /\ finalResults # << >>
         /\ \A s \in RawScores : s <= finalResults[1].score
         /\ finalResults[1].score \in RawScores
         /\ finalResults[1].score =
              (IF Boost THEN BestScore(qaResults) ELSE BestScore(contentResults))

\* the best chunk beats the best Q&A pair and leads a list that is not in
\* the order of the similarities
C26_Witness ==
  /\ Returned
  /\ qaResults # << >>
  /\ ~Boost
  /\ finalResults[1].source = "content"
  /\ \E i, j \in 1..Len(finalResults) : i < j /\ finalResults[i].score < finalResults[j].score

\* the sections of the Q&A candidates admitted to the fusion
AdmittedQASections == {QAAsResults(qaResults)[i].chunk.id : i \in 1..Len(QAAsResults(qaResults))}
AdmittedContentSections ==
  {ContentAsResults(contentResults)[i].chunk.id :
     i \in 1..Len(ContentAsResults(contentResults))}

\* C27: with the Q&A boost (best Q&A similarity >= best content similarity)
\* every Q&A entry of the fused list precedes every content entry, and a
\* content chunk is returned only behind all sections of the admitted Q&A
\* candidates; without the boost a Q&A entry and a content entry of the same
\* rank have the same fused score and the one of higher similarity is first
C27_QABeforeContentWhenBoosted ==
  Returned =>
    /\ Boost =>
         /\ \A i \in FusedQA, j \in FusedContent : i < j
         /\ \A p \in 1..Len(finalResults) :
              finalResults[p].source = "content" =>
                \A s \in AdmittedQASections :
                  \E i \in 1..(p - 1) :
                    finalResults[i].chunk.id = s /\ finalResults[i].source = "qa"
    /\ ~Boost =>
         \A i \in FusedQA, j \in FusedContent :
           sortedResults[i].result.originalRank = sortedResults[j].result.originalRank =>
             /\ sortedResults[i].rrfScore = sortedResults[j].rrfScore
             /\ sortedResults[i].result.score > sortedResults[j].result.score => i < j
             /\ sortedResults[j].result.score > sortedResults[i].result.score => j < i

\* boosted Q&A candidates beyond the window, a content chunk returned, of
\* higher similarity than the Q&A candidate of its rank
C27_Witness ==
  /\ Returned
  /\ Boost
  /\ Len(qaResults) > QA_WINDOW
  /\ \E p \in 1..Len(finalResults) : finalResults[p].source = "content"
  /\ \E i \in FusedQA, j \in FusedContent :
       /\ sortedResults[i].result.originalRank = sortedResults[j].result.originalRank
       /\ sortedResults[j].result.score > sortedResults[i].result.score

\* the entries returned for sections that have an admitted candidate of
\* either source
ReturnedForBoth ==
  {p \in 1..Len(finalResults) :
     finalResults[p].chunk.id \in AdmittedQASections \cap AdmittedContentSections}

FirstOfSection(s) ==
  CHOOSE i \in 1..Len(sortedResults) :
    /\ sortedResults[i].result.chunk.id = s
    /\ \A j \in 1..(i - 1) : sortedResults[j].result.chunk.id # s

RECURSIVE AppendForKeysOf(_, _, _)
AppendForKeysOf(original, expanded, i) ==
  IF i > Len(SYNONYMS) THEN expanded
  ELSE CHOOSE final \in
         {AppendForKeysOf(original, next, i + 1) :
            next \in {IF includes(original, SYNONYMS[i].term)
                      THEN AppendSynonyms(expanded, SYNONYMS[i])
                      ELSE expanded}} : TRUE

\* a key that is not in the lower-cased query but whose synonym list was
\* appended because the key occurs in the text appended for an earlier key
ChainedKey(i) ==
  /\ ~includes(toLowerCase(sQuery), SYNONYMS[i].term)
  /\ includes(expandedQuery, SYNONYMS[i].term)
  /\ expandedQuery # AppendForKeysOf(toLowerCase(sQuery), toLowerCase(sQuery), 1)

\* C28: the expanded text is the lower-cased query followed by the synonym
\* lists of exactly the keys that occur in the lower-cased original query;
\* the list of a key that occurs only in appended synonyms is not appended
C28_OnlyKeysOfOriginalQuery ==
  Expanded =>
    expandedQuery = AppendForKeysOf(toLowerCase(sQuery), toLowerCase(sQuery), 1)

\* an expansion that appended the list of a key absent from the query
C28_ChainedExpansion == Expanded /\ \E i \in 1..Len(SYNONYMS) : ChainedKey(i)


(***************************************************************************)
(* C23: the score array of BM25.search.                                    *)
(***************************************************************************)
\* BM25.search has returned to the search call in flight
Bm25Searched ==
  sPc = "reranking" \/ (sPc = "done" /\ sResponse.kind = "results")

\* the set of tokens of indexed document i
DocTokens(i) ==
  CHOOSE set \in {{tokens[m] : m \in 1..Len(tokens)} :
                    tokens \in {tokenize(DocumentOf(sChunks[i]))}} : TRUE

\* the token sets of the indexed documents
AllDocTokens == [i \in 1..Len(sChunks) |-> DocTokens(i)]

\* C23: BM25.search returns one score per indexed document, in document
\* order; the score is strictly positive exactly when the document has a
\* token of the tokenized query (all of 3 characters or more) and 0
\* otherwise; the scores are those of the query without the tokens that no
\* document has
C23_PositiveExactlyOnMatch ==
  Bm25Searched =>
    \A queryTokens \in {tokenize(expandedQuery)} : \A docs \in {AllDocTokens} :
      /\ Len(bm25Scores) = Len(sChunks)
      /\ \A n \in 1..Len(queryTokens) : Len(queryTokens[n]) >= 3
      /\ \A i \in 1..Len(bm25Scores) :
           IF \E n \in 1..Len(queryTokens) : queryTokens[n] \in docs[i]
           THEN bm25Scores[i] > 0
           ELSE bm25Scores[i] = 0
      /\ \A present \in
             {SelectSeq(queryTokens, LAMBDA token : \E i \in 1..Len(docs) : token \in docs[i])} :
           bm25Scores =
             [i \in 1..Len(bm25Scores) |->
                IF \E n \in 1..Len(present) : present[n] \in docs[i]
                THEN bm25Scores[i] ELSE 0]

\* a query with a token that no document has and a token that some have:
\* a document with a positive score next to one with the score 0
C23_Witness ==
  /\ Bm25Searched
  /\ \E i, j \in 1..Len(bm25Scores) : bm25Scores[i] > 0 /\ bm25Scores[j] = 0
  /\ \E queryTokens \in {tokenize(expandedQuery)} : \E docs \in {AllDocTokens} :
       \E n \in 1..Len(queryTokens) : \A i \in 1..Len(docs) : queryTokens[n] \notin docs[i]


SameScores ==
  /\ Returned
  /\ harness.kind = "ran"
  /\ harness.qaResults = qaResults
  /\ harness.contentResults = contentResults
  /\ harness.topK = topK

\* the label of the harness in the spelling of the library
LabelOf(confidence) ==
  CASE confidence = "HIGH" -> "high"
    [] confidence = "MEDIUM" -> "medium"
    [] confidence = "LOW" -> "low"
    [] confidence = "NONE" -> "none"

\* the sections of a result list, in order
SectionsOf(results) == [i \in 1..Len(results) |-> results[i].chunk.id]

SameVerdict ==
  /\ LabelOf(harness.verdict.confidence) = response.confidence
  /\ harness.verdict.topicCovered = response.topicCovered

\* the sections the harness shows against the de-duplicated list of the
\* library
SameSections == SectionsOf(harness.shown) = SectionsOf(finalResults)

\* C30: on the same similarity scores and the same top-K, the harness gives
\* the confidence label and the topic-covered verdict of hybridSearch and
\* lists the same sections in the same order
C30_HarnessAgreesWithLibrary == SameScores => SameVerdict /\ SameSections

\* the two agree on the sections and differ in the verdict
C30_VerdictsDiffer == SameScores /\ SameSections /\ ~SameVerdict


(***************************************************************************)
(* C21, C22, C29: overlapping queries through the useSearch hook.          *)
(***************************************************************************)
\* C21: no step of a query operation (hybridSearch with its correctQuery,
\* searchQA, searchContent), whatever calls are suspended at the embedder
\* meanwhile, changes the Q&A pairs, the chunks, the two embedding maps or
\* the vocabulary, order included
C21_QueriesLeaveCorpus ==
  [][initPc' = initPc =>
       UNCHANGED <<qaPairs, qaEmbeddings, chunks, chunkEmbeddings, vocabulary>>]_vars

\* two hybridSearch calls issued while a direct search was suspended: one
\* has returned, the other still waits for its embedding
C21_Witness ==
  /\ Len(calls) >= 2
  /\ \E i, j \in 1..Len(calls) : calls[i].pc = "embedding" /\ calls[j].pc = "done"
  /\ pc \in {"embeddingQA", "embeddingContent"}
  /\ qaPairs # << >>
  /\ vocabulary # << >>

\* call i has returned a response
Answered(i) == calls[i].pc = "done" /\ calls[i].response.kind = "ok"

\* the embedder gave calls i and j the same vector if they handed it the
\* same text
SameProvider(i, j) ==
  calls[i].embedText = calls[j].embedText => calls[i].embedding = calls[j].embedding

FieldsFrom(resp) ==
  /\ hook.results = resp.results
  /\ hook.confidence = resp.confidence
  /\ hook.topicCovered = resp.topicCovered
  /\ hook.correctedQuery = resp.correctedQuery

\* the four fields are the initial ones or those of one response
FieldsFromOneResponse ==
  \/ /\ hook.results = HookInitial.results
     /\ hook.confidence = HookInitial.confidence
     /\ hook.topicCovered = HookInitial.topicCovered
     /\ hook.correctedQuery = HookInitial.correctedQuery
  \/ \E i \in 1..Len(calls) : Answered(i) /\ FieldsFrom(calls[i].response)

\* every search issued through doSearch has returned a response, and the
\* embedder gave the same vector for the same text
AllAnswered ==
  /\ Len(calls) >= 2
  /\ \A i \in 1..Len(calls) : Answered(i)
  /\ \A i, j \in 1..Len(calls) : SameProvider(i, j)

\* C29: once every search issued through doSearch has returned, results,
\* confidence, topicCovered and correctedQuery are those of the response to
\* the query issued last; and at every moment the four come from one response
C29_LatestQueryWins ==
  /\ FieldsFromOneResponse
  /\ AllAnswered => FieldsFrom(calls[Len(calls)].response)

\* both searches have returned and the hook shows the response to the
\* query issued first
C29_StaleResponseShown ==
  /\ Len(calls) = 2
  /\ AllAnswered
  /\ calls[1].query # calls[2].query
  /\ FieldsFrom(calls[1].response)
  /\ ~FieldsFrom(calls[2].response)

====
